---- MODULE Spec2Model ----
(***************************************************************************)
(* A model of neural_analysis/spikes.py: the window generator, the spike   *)
(* representation classifier, the binned-rate estimator and the            *)
(* timestamp <-> boolean converters.                                       *)
(*                                                                         *)
(* Time is measured in ticks of 0.5 ms, so that every constant of the code *)
(* (1e-3, 0.5e-3, the integer 1) is a whole number of ticks and arithmetic *)
(* on the tick grid is exact.  Float rounding error is outside the model.  *)
(* A call is one step: the action draws the arguments, runs the whole      *)
(* function and records what the caller sees: the return value or the      *)
(* exception, and the caller's data after the call.                        *)
(***************************************************************************)
EXTENDS Integers, Sequences, FiniteSets, TLC

VARIABLES
    op,     \* name of the last function called ("none" before any call)
    args,   \* the arguments of that call
    data,   \* the caller's spike data object, as it is after the call
    ret     \* what the call returned, or the error it raised

vars == <<op, args, data, ret>>

-----------------------------------------------------------------------------
(* Units *)

HalfMs == 1          \* 0.5e-3 s
Ms == 2              \* 1e-3 s
One == 2000          \* the Python integer 1 (as a time: 1 s)
Eps == 1             \* 1e-12, on a grid refined by Fine: below one tick
Fine == Eps + 1
Half == One \div 2

(* Bounds of the enumerated inputs *)
MaxSpan == 6         \* widest lims[1]-lims[0], in half units
MaxWidth == 4        \* widest window width / step, in half units

-----------------------------------------------------------------------------
(* Values *)

\* A Python scalar argument: None, or a number v (in ticks) that is a Python
\* int (isint) or a float.
None == [none |-> TRUE, v |-> 0, isint |-> FALSE]
Num(v, isint) == [none |-> FALSE, v |-> v, isint |-> isint]

\* A raised exception / a returned value
Raise(e) == [ok |-> FALSE, err |-> e]

Range(s) == {s[i] : i \in DOMAIN s}
Max(a, b) == IF a >= b THEN a ELSE b
Min(a, b) == IF a <= b THEN a ELSE b
CeilDiv(a, b) == -((-a) \div b)
IsWhole(v) == v % One = 0

-----------------------------------------------------------------------------
(* Window generator *)

\* len(np.arange(start, stop, step)) for step > 0
arange_len(start, stop, step) ==
    IF stop <= start THEN 0 ELSE CeilDiv(stop - start, step)

\* _iarange(start, stop, step): np.arange with a (nominally) inclusive end
_iarange(start, stop, step) ==
    LET n == IF step.isint
             THEN arange_len(start, stop + One, step.v)
             ELSE arange_len(Fine * start, Fine * stop + Eps, Fine * step.v)
    IN  [k \in 1..n |-> start + (k - 1) * step.v]

\* np.round of one value: to the nearest integer, ties to the even integer
np_round(x) ==
    LET q == x \div One
        r == x % One
    IN  IF 2 * r < One THEN q * One
        ELSE IF 2 * r > One THEN (q + 1) * One
        ELSE IF q % 2 = 0 THEN q * One ELSE (q + 1) * One

\* "Set end of each window"
win_ends_mut(win_starts, width, exclude_end) ==
    [k \in DOMAIN win_starts |-> win_starts[k] + width.v]

win_ends(win_starts, width, exclude_end) ==
    IF exclude_end
    THEN [k \in DOMAIN win_starts |-> win_starts[k] + width.v - One]
    ELSE [k \in DOMAIN win_starts |-> win_starts[k] + width.v]

\* the default of exclude_end ("None" | "True" | "False")
exclude_end_default(force_int, exclude_end) ==
    IF exclude_end = "None" THEN force_int ELSE exclude_end = "True"

\* setup_sliding_windows(width, lims, step, reference, force_int, exclude_end)
\* The reference branch hands np.concatenate two positional arrays: the first
\* is taken as the sequence of arrays to join (its elements are 0-d) and the
\* second as the axis, so numpy raises for every input.
setup_sliding_windows(width, lims, step0, reference, force_int, exclude_end0) ==
    LET step == IF step0.none THEN width ELSE step0
        exclude_end == exclude_end_default(force_int, exclude_end0)
        win_starts ==
            IF exclude_end
            THEN _iarange(lims[1], lims[2] - width.v + One, step)
            ELSE _iarange(lims[1], lims[2] - width.v, step)
        ends == win_ends(win_starts, width, exclude_end)
        n == Len(win_starts)
    IN  IF ~reference.none
        THEN Raise("np.concatenate")
        ELSE [ok |-> TRUE,
              shape |-> <<n, 2>>,
              windows |-> [k \in 1..n |->
                  IF force_int
                  THEN <<np_round(win_starts[k]), np_round(ends[k])>>
                  ELSE <<win_starts[k], ends[k]>>]]

-----------------------------------------------------------------------------
(* Calls of the window generator *)

NoData == [kind |-> "none"]

WidthValues == {k * Half : k \in 1..MaxWidth}
NumValues == {Num(v, FALSE) : v \in WidthValues}
             \cup {Num(v, TRUE) : v \in {w \in WidthValues : IsWhole(w)}}
LimsValues == {<<a * Half, a * Half + s * Half>> : a \in -1..2, s \in 0..MaxSpan}

\* the example of the documentation: width 0.05, lims [0,1], step 0.05
DocExample == [width |-> Num(50 * Ms, FALSE), lims |-> <<0, One>>,
               step |-> Num(50 * Ms, FALSE), reference |-> None,
               force_int |-> FALSE, exclude_end |-> "None"]

WinArgs ==
    [width : NumValues, lims : LimsValues, step : NumValues \cup {None},
     reference : {None, Num(0, FALSE), Num(Half, FALSE), Num(One, TRUE)},
     force_int : BOOLEAN, exclude_end : {"None", "True", "False"}]
    \cup {DocExample}

CallSetupSlidingWindows ==
    /\ op = "none"
    /\ \E a \in WinArgs :
        /\ op' = "setup_sliding_windows"
        /\ args' = a
        /\ ret' = setup_sliding_windows(a.width, a.lims, a.step, a.reference,
                                        a.force_int, a.exclude_end)
        /\ UNCHANGED data

InitWin == op = "none" /\ args = [none |-> TRUE] /\ data = NoData /\ ret = [ok |-> TRUE]
NextWin == CallSetupSlidingWindows
SpecWin == InitWin /\ [][NextWin]_vars

-----------------------------------------------------------------------------
(* Spike data *)

\* A data object handed to the library: a Python list or an ndarray, with
\* the dtype np.asarray gives it ("bool", "int", "float", "str", "object"),
\* its shape, its elements in row-major (C) order and whether its memory
\* layout is Fortran order.  Numbers are ticks; the elements of an object
\* array are spike trains (sequences of ticks).
Array(kind, dtype, shape, elems, forder) ==
    [kind |-> kind, dtype |-> dtype, shape |-> shape, elems |-> elems,
     forder |-> forder]

ndim(a) == Len(a.shape)
IsNumeric(a) == a.dtype \in {"int", "float"}

RECURSIVE Insert(_, _)
Insert(x, s) ==
    IF s = <<>> THEN <<x>>
    ELSE IF x <= Head(s) THEN <<x>> \o s
    ELSE <<Head(s)>> \o Insert(x, Tail(s))

\* ndarray.sort() of a 1-D array: ascending
RECURSIVE np_sort(_)
np_sort(s) == IF s = <<>> THEN <<>> ELSE Insert(Head(s), np_sort(Tail(s)))

IsAscending(s) == \A i \in 1..(Len(s) - 1) : s[i] <= s[i + 1]

-----------------------------------------------------------------------------
(* Spike representation classifier *)

\* _isbinary(data): dtype bool, or numeric with every value in {0, 1}
_isbinary(a) ==
    \/ a.dtype = "bool"
    \/ IsNumeric(a) /\ \A i \in DOMAIN a.elems : a.elems[i] \in {0, One}

\* (data.sort() == data).all(): ndarray.sort() sorts in place and returns
\* None, and None == data compares None with every element: an array of
\* False, whose all() is True only for an empty array.
sort_equals_data_all(a) == Len(a.elems) = 0

\* the variant that compares the sorted values with the original ones
sort_equals_data_all_mut(a) == np_sort(a.elems) = a.elems

\* does the elif of _spike_data_type reach data.sort()?
classifier_sorts(a) == ~_isbinary(a) /\ a.dtype # "object" /\ ndim(a) = 1

\* _spike_data_type(data): "bool" | "timestamp" | "rate", or ValueError
_spike_data_type(a) ==
    IF _isbinary(a) THEN [ok |-> TRUE, type |-> "bool"]
    ELSE IF a.dtype = "object" \/ (ndim(a) = 1 /\ sort_equals_data_all(a))
         THEN [ok |-> TRUE, type |-> "timestamp"]
    ELSE IF IsNumeric(a) THEN [ok |-> TRUE, type |-> "rate"]
    ELSE Raise("ValueError")

\* the caller's object after _spike_data_type(data): np.asarray copies a list
\* but returns an ndarray itself, which data.sort() then sorts in place
after_spike_data_type(a) ==
    IF a.kind = "ndarray" /\ classifier_sorts(a)
    THEN [a EXCEPT !.elems = np_sort(a.elems)]
    ELSE a

-----------------------------------------------------------------------------
(* Calls of the classifier *)

MaxLen == 3          \* longest 1-D numeric input

\* numeric element values: 0, 0.5, 1, 1.5 (floats); 0, 1, 2 (ints)
FloatValues == {0, Half, One, One + Half}
IntValues == {0, One, 2 * One}

SeqsUpTo(S, n) == UNION {[1..k -> S] : k \in 0..n}

\* numeric and string arrays (elements are numbers)
NumberArrays ==
    {Array(k, "float", <<Len(e)>>, e, FALSE) :
        k \in {"list", "ndarray"}, e \in SeqsUpTo(FloatValues, MaxLen)}
    \cup {Array("ndarray", "int", <<Len(e)>>, e, FALSE) :
        e \in SeqsUpTo(IntValues, MaxLen)}
    \cup {Array("ndarray", "str", <<Len(e)>>, e, FALSE) :
        e \in SeqsUpTo({1, 2}, 2) \ {<<>>}}
    \cup {Array("ndarray", "float", <<2, 2>>, e, f) :
        e \in [1..4 -> {0, One, One + Half}], f \in BOOLEAN}
    \cup {Array("ndarray", "str", <<2, 1>>, <<1, 2>>, FALSE)}

\* arrays of dtype bool
BoolArrays ==
    {Array("ndarray", "bool", <<Len(e)>>, e, FALSE) :
        e \in SeqsUpTo(BOOLEAN, MaxLen)}
    \cup {Array("ndarray", "bool", <<2, 2>>, e, f) :
        e \in [1..4 -> BOOLEAN], f \in BOOLEAN}

\* object arrays of spike trains
ObjectArrays ==
    {Array("ndarray", "object", <<Len(e)>>, e, FALSE) :
        e \in SeqsUpTo({<<>>, <<0>>, <<0, One>>, <<Half, One + Half>>}, 2)}

CallSpikeDataType ==
    /\ op = "none"
    /\ op' = "_spike_data_type"
    /\ args' = [data |-> data]
    /\ ret' = _spike_data_type(data)
    /\ data' = after_spike_data_type(data)

InitType ==
    /\ op = "none" /\ args = [none |-> TRUE] /\ ret = [ok |-> TRUE]
    /\ \/ data \in NumberArrays
       \/ data \in BoolArrays
       \/ data \in ObjectArrays
NextType == CallSpikeDataType
SpecType == InitType /\ [][NextType]_vars

-----------------------------------------------------------------------------
(* N-d arrays: shape plus elements in row-major order; axes and index      *)
(* tuples are 0-based as in Python, sequences are 1-based                  *)

\* the element of a one-element set: names a value once it is computed
Only(S) == CHOOSE x \in S : TRUE

RECURSIVE Prod(_)
Prod(shape) == IF shape = <<>> THEN 1 ELSE Head(shape) * Prod(Tail(shape))

\* position (0-based) of an index tuple in row-major (C) order, and back
RECURSIVE CRavel(_, _)
CRavel(shape, idx) ==
    IF shape = <<>> THEN 0
    ELSE Head(idx) * Prod(Tail(shape)) + CRavel(Tail(shape), Tail(idx))

RECURSIVE CUnravel(_, _)
CUnravel(shape, n) ==
    IF shape = <<>> THEN <<>>
    ELSE <<n \div Prod(Tail(shape))>> \o CUnravel(Tail(shape), n % Prod(Tail(shape)))

\* the same in column-major (Fortran) order
RECURSIVE FRavel(_, _)
FRavel(shape, idx) ==
    IF shape = <<>> THEN 0
    ELSE Head(idx) + Head(shape) * FRavel(Tail(shape), Tail(idx))

RECURSIVE FUnravel(_, _)
FUnravel(shape, n) ==
    IF shape = <<>> THEN <<>>
    ELSE <<n % Head(shape)>> \o FUnravel(Tail(shape), n \div Head(shape))

At(a, idx) == a.elems[CRavel(a.shape, idx) + 1]

\* a negative axis counts from the end
norm_axis(axis, nd) == IF axis < 0 THEN nd + axis ELSE axis

\* the array with the given shape whose element at index idx is the element
\* of a at from[idx]
FromIndex(a, shape, from) ==
    [a EXCEPT !.shape = shape,
              !.elems = [n \in 1..Prod(shape) |->
                            At(a, from[CUnravel(shape, n - 1)])]]

\* the indices of an array of the given shape
Indices(shape) == {CUnravel(shape, n - 1) : n \in 1..Prod(shape)}

\* np.moveaxis(a, src, dst)
np_moveaxis(a, src0, dst0) ==
    LET nd == Len(a.shape)
        src == norm_axis(src0, nd)
        dst == norm_axis(dst0, nd)
        \* others: the axes other than src, in order
        others == SelectSeq([i \in 1..nd |-> i - 1], LAMBDA x : x # src)
        \* order[i]: the old axis found at new position i (1-based position)
        order == [i \in 1..nd |->
                    IF i - 1 = dst THEN src
                    ELSE IF i - 1 < dst THEN others[i] ELSE others[i - 1]]
        \* inv[j]: the new position (1-based) of old axis j - 1
        inv == [j \in 1..nd |-> CHOOSE i \in 1..nd : order[i] = j - 1]
        shape == [i \in 1..nd |-> a.shape[order[i] + 1]]
    IN  FromIndex(a, shape,
                  [idx \in Indices(shape) |-> [j \in 1..nd |-> idx[inv[j]]]])

\* a.T: the axes reversed
np_transpose(a) ==
    LET nd == Len(a.shape)
        shape == [i \in 1..nd |-> a.shape[nd + 1 - i]]
    IN  FromIndex(a, shape,
                  [idx \in Indices(shape) |-> [j \in 1..nd |-> idx[nd + 1 - j]]])

\* np.reshape(a, shape, order): the elements read and written in that order
np_reshape(a, shape, order) ==
    IF order = "C" THEN [a EXCEPT !.shape = shape]
    ELSE FromIndex(a, shape,
                   [idx \in Indices(shape) |->
                       FUnravel(a.shape, FRavel(shape, idx))])

\* data.flags.f_contiguous: Fortran layout, or at most one axis longer than 1
f_contiguous(a) ==
    a.forder \/ Cardinality({i \in DOMAIN a.shape : a.shape[i] > 1}) <= 1

\* _reshape_data(data, axis): the array as 2-D (other axes, axis)
_reshape_data(a, axis) ==
    LET data_ndim == Len(a.shape)
        axis_len == a.shape[norm_axis(axis, data_ndim) + 1]
        other_len == Prod(a.shape) \div axis_len
    IN  IF f_contiguous(a)
        THEN Only({IF data_ndim > 2
                   THEN Only({np_transpose(flat) :
                          flat \in {np_reshape(moved, <<axis_len, other_len>>, "F")}})
                   ELSE np_transpose(moved) :
                moved \in {IF axis # 0 THEN np_moveaxis(a, axis, 0) ELSE a}})
        ELSE Only({IF data_ndim > 2
                   THEN np_reshape(moved, <<other_len, axis_len>>, "C")
                   ELSE moved :
                moved \in {IF axis \notin {-1, data_ndim - 1}
                           THEN np_moveaxis(a, axis, -1) ELSE a}})

-----------------------------------------------------------------------------
(* Boolean trains -> timestamps *)

\* the positions (1-based, from i on) where a boolean row is True, ascending
RECURSIVE Positions(_, _)
Positions(row, i) ==
    IF i > Len(row) THEN <<>>
    ELSE (IF row[i] THEN <<i>> ELSE <<>>) \o Positions(row, i + 1)

\* t[row]: a boolean row is a mask (its length must be len(t)); an integer
\* row is a list of positions into t; a float row cannot index
index_by_row(t, row, dtype) ==
    IF dtype = "bool"
    THEN IF Len(row) # Len(t) THEN Raise("IndexError")
         ELSE LET pos == Positions(row, 1)
              IN  [ok |-> TRUE, value |-> [k \in DOMAIN pos |-> t[pos[k]]]]
    ELSE IF dtype = "int"
    THEN IF \E i \in DOMAIN row : row[i] \div One >= Len(t) THEN Raise("IndexError")
         ELSE [ok |-> TRUE, value |-> [k \in DOMAIN row |-> t[(row[k] \div One) + 1]]]
    ELSE Raise("IndexError")

\* bool_to_times(spike_bool, t, axis)
bool_to_times(spike_bool, t, axis0) ==
    LET single_train == Len(spike_bool.shape) = 1
        sb == IF single_train
              THEN [spike_bool EXCEPT !.shape = <<1, spike_bool.shape[1]>>]
              ELSE spike_bool
        axis == IF single_train THEN 1
                ELSE norm_axis(axis0, Len(spike_bool.shape))
        out_shape == SelectSeq([i \in DOMAIN sb.shape |-> <<i - 1, sb.shape[i]>>],
                               LAMBDA p : p[1] # axis)
    IN  Only({
          LET n_spike_trains == flat.shape[1]
              n_timepts == flat.shape[2]
              row(i) == [j \in 1..n_timepts |-> flat.elems[(i - 1) * n_timepts + j]]
              times == [i \in 1..n_spike_trains |-> index_by_row(t, row(i), sb.dtype)]
          IN  IF \E i \in 1..n_spike_trains : ~times[i].ok THEN Raise("IndexError")
              ELSE IF single_train
              THEN [ok |-> TRUE,
                    value |-> Array("ndarray", "float", <<Len(times[1].value)>>,
                                    times[1].value, FALSE)]
              ELSE [ok |-> TRUE,
                    value |-> Array("ndarray", "object",
                                    [i \in DOMAIN out_shape |-> out_shape[i][2]],
                                    [i \in 1..n_spike_trains |-> times[i].value],
                                    FALSE)] :
          flat \in {_reshape_data(sb, axis)}})

-----------------------------------------------------------------------------
(* Binned-rate estimator *)

Uint16 == 65536      \* dtype 'uint16': values are kept modulo 2^16

\* number of entries x of a train with lo <= x < hi, or lo <= x <= hi when
\* the interval is closed
CountIf(train, lo, hi, closed) ==
    Cardinality({i \in DOMAIN train :
        lo <= train[i] /\ (train[i] < hi \/ (closed /\ train[i] = hi))})

\* np.histogram(data, edges)[0]: every bin is [lo, hi) except the last one,
\* which is [lo, hi]; edges that decrease raise
np_histogram_mut(train, edges) ==
    IF \E i \in 1..(Len(edges) - 1) : edges[i] > edges[i + 1]
    THEN Raise("ValueError")
    ELSE [ok |-> TRUE,
          value |-> [j \in 1..(Len(edges) - 1) |->
              CountIf(train, edges[j], edges[j + 1], FALSE)]]

np_histogram(train, edges) ==
    IF \E i \in 1..(Len(edges) - 1) : edges[i] > edges[i + 1]
    THEN Raise("ValueError")
    ELSE [ok |-> TRUE,
          value |-> [j \in 1..(Len(edges) - 1) |->
              IF j = Len(edges) - 1
              THEN CountIf(train, edges[j], edges[j + 1], TRUE)
              ELSE CountIf(train, edges[j], edges[j + 1], FALSE)]]

\* bins_ = np.hstack((bins[:,0], bins[-1,-1])): the edges of all bins
bin_edges(bins) ==
    [j \in 1..(Len(bins) + 1) |->
        IF j <= Len(bins) THEN bins[j][1] ELSE bins[Len(bins)][2]]

\* _histogram_count(data, bins): bins are the edges
_histogram_count(train, edges) == np_histogram(train, edges)

\* _custom_bin_count(data, bins): start <= t < end, as uint16
_custom_bin_count_mut(train, bins) ==
    [ok |-> TRUE,
     value |-> [j \in DOMAIN bins |->
        CountIf(train, bins[j][1], bins[j][2], TRUE) % Uint16]]

_custom_bin_count(train, bins) ==
    [ok |-> TRUE,
     value |-> [j \in DOMAIN bins |->
        CountIf(train, bins[j][1], bins[j][2], FALSE) % Uint16]]

\* _enclose_in_object_array(np.asarray(data)): one train holding all values
_enclose_in_object_array(a) ==
    Array("ndarray", "object", <<1>>, <<a.elems>>, FALSE)

\* a bins / lims / t argument: None, or an ndarray given by its shape and
\* its values (for bins: the rows, also when the shape is not (n, 2))
NoArg == [none |-> TRUE, shape |-> <<>>, v |-> <<>>]
Arg(shape, v) == [none |-> FALSE, shape |-> shape, v |-> v]

\* std_bins: equal widths, each bin starting where the previous one ends
\* (np.allclose is exact on the tick grid over the modelled range)
std_bins(bins) ==
    /\ \A j \in DOMAIN bins : bins[j][2] - bins[j][1] = bins[1][2] - bins[1][1]
    /\ \A j \in 2..Len(bins) : bins[j][1] = bins[j - 1][2]

\* drop the leading axis of length 1 (rates.squeeze(axis=0))
squeeze0(r) == [r EXCEPT !.shape = Tail(r.shape)]

\* bin_rate, from the bins on: the spikes of each train counted in each bin
\* of b, for the timestamp data dat.  A rate is kept as the exact quotient
\* <<count, width>>.
bin_rate_bins(dat, b, count, is_bool, axis) ==
    LET single_train == dat.kind = "list" \/ dat.dtype # "object"
        coll == IF single_train THEN _enclose_in_object_array(dat) ELSE dat
        bins == b.windows
        n_bins == b.shape[1]
        widths == [j \in 1..n_bins |-> bins[j][2] - bins[j][1]]
    IN  IF ~(Len(b.shape) = 2 /\ b.shape[2] = 2) THEN Raise("AssertionError: bins")
        \* widths[0] on np.diff(bins).squeeze(): 0-d for one bin, empty for none
        ELSE IF n_bins <= 1 THEN Raise("IndexError")
        ELSE Only({
          LET cell(i, j) ==
                  IF count THEN counts[i].value[j] % Uint16
                  ELSE <<counts[i].value[j], widths[j]>>
          IN  IF \E i \in DOMAIN counts : ~counts[i].ok THEN Raise("ValueError")
              ELSE Only({
                [ok |-> TRUE,
                 rates |-> IF is_bool /\ axis # Len(squeezed.shape)
                           THEN np_moveaxis(squeezed, -1, axis) ELSE squeezed,
                 bins |-> bins] :
                squeezed \in {
                  LET full == [dtype |-> IF count THEN "uint16" ELSE "float",
                               shape |-> coll.shape \o <<n_bins>>,
                               elems |-> [n \in 1..(Len(coll.elems) * n_bins) |->
                                  cell(((n - 1) \div n_bins) + 1,
                                       ((n - 1) % n_bins) + 1)]]
                  IN  IF single_train THEN squeeze0(full) ELSE full}}) :
          counts \in {
            Only({[i \in DOMAIN coll.elems |->
                     IF std THEN _histogram_count(coll.elems[i], bin_edges(bins))
                     ELSE _custom_bin_count(coll.elems[i], bins)] :
                  std \in {std_bins(bins)}})}})

\* bin_rate(data, lims, width, step, bins, count, axis, t)
bin_rate(d, lims, width, step, bins0, count, axis0, t) ==
    Only({
      LET is_bool == data_type.ok /\ data_type.type = "bool"
          axis == IF is_bool /\ axis0 < 0 /\ d.kind # "list"
                  THEN Len(d.shape) + axis0 ELSE axis0
      IN  IF ~data_type.ok THEN data_type
          ELSE IF is_bool /\ t.none THEN Raise("AssertionError: t")
          ELSE IF is_bool /\ d.kind = "list" /\ axis0 < 0 THEN Raise("AttributeError")
          ELSE Only({
            IF ~conv.ok THEN conv
            ELSE IF bins0.none /\ lims.none THEN Raise("AssertionError: lims")
            ELSE Only({bin_rate_bins(conv.value, b, count, is_bool, axis) :
                   b \in {IF bins0.none
                          THEN setup_sliding_windows(width, lims.v, step, None,
                                                     FALSE, "None")
                          ELSE [ok |-> TRUE, shape |-> bins0.shape,
                                windows |-> bins0.v]}}) :
            conv \in {IF is_bool THEN bool_to_times(d, t.v, axis)
                      ELSE [ok |-> TRUE, value |-> d]}}) :
      data_type \in {_spike_data_type(d)}})

-----------------------------------------------------------------------------
(* Timestamps -> boolean trains *)

\* math.isclose(width, 1e-3)
isclose_ms(width) == width.v = Ms

\* times_to_bool(spike_times, lims, width) with bins=None.  The bin centers
\* bins.mean(axis=1) are whole ticks for the widths drawn (even numbers).
times_to_bool(spike_times, lims0, width) ==
    LET lims == IF isclose_ms(width)
                THEN <<lims0.v[1] - HalfMs, lims0.v[2] + HalfMs>>
                ELSE lims0.v
        \* astype(bool): nonzero (c/0 is inf or nan, both True)
        truth(q) == ~(q[1] = 0 /\ q[2] # 0)
    IN  IF lims0.none THEN Raise("AssertionError: lims")
        ELSE Only({
          LET timepts == [j \in DOMAIN w.windows |->
                             (w.windows[j][1] + w.windows[j][2]) \div 2]
          IN  Only({
                IF ~r.ok THEN r
                ELSE [ok |-> TRUE,
                      spike_bool |-> Array("ndarray", "bool", r.rates.shape,
                                        [n \in DOMAIN r.rates.elems |->
                                            truth(r.rates.elems[n])],
                                        FALSE),
                      timepts |-> timepts] :
                r \in {bin_rate(spike_times, NoArg, Num(50 * Ms, FALSE), None,
                                Arg(w.shape, w.windows), FALSE, -1, NoArg)}}) :
          w \in {setup_sliding_windows(width, lims, width, None, FALSE, "None")}})

-----------------------------------------------------------------------------
(* Calls of the binned-rate estimator *)

MaxTime == 4         \* latest spike time, in half units
MaxSpikes == 2       \* most spikes in a single train

SpikeTimes == {k * Half : k \in 0..MaxTime}
Trains == SeqsUpTo(SpikeTimes, MaxSpikes)
CollTrains == {<<>>, <<0>>, <<Half, 2 * One>>, <<One, One>>}

SingleTrains ==
    {Array(k, "float", <<Len(e)>>, e, FALSE) : k \in {"list", "ndarray"}, e \in Trains}

Collections ==
    {Array("ndarray", "object", <<Len(e)>>, e, FALSE) :
        e \in SeqsUpTo(CollTrains, 2) \ {<<>>}}
    \cup {Array("ndarray", "object", <<1, 2>>, e, FALSE) : e \in [1..2 -> CollTrains]}

BinaryTrains ==
    {Array("ndarray", "bool", <<Len(e)>>, e, FALSE) :
        e \in [1..2 -> BOOLEAN] \cup [1..3 -> BOOLEAN]}
    \cup {Array("ndarray", "bool", <<2, 2>>, e, f) :
        e \in [1..4 -> BOOLEAN], f \in BOOLEAN}

\* 0/1 trains given as integers
IntegerTrains ==
    {Array(k, "int", <<2>>, e, FALSE) :
        k \in {"list", "ndarray"}, e \in [1..2 -> {0, One}]}

LimsArgs == {NoArg, Arg(<<2>>, <<0, One>>), Arg(<<2>>, <<0, 2 * One>>),
             Arg(<<2>>, <<0, 2 * One + Half>>), Arg(<<2>>, <<Half, 2 * One>>)}

BinsArgs ==
    {Arg(<<2, 2>>, <<<<0, One>>, <<One, 2 * One>>>>),
     Arg(<<3, 2>>, <<<<0, Half>>, <<Half, One>>, <<One, One + Half>>>>),
     Arg(<<1, 2>>, <<<<0, 2 * One>>>>),
     Arg(<<2, 2>>, <<<<0, One>>, <<Half, One + Half>>>>),
     Arg(<<2, 2>>, <<<<0, Half>>, <<One, 2 * One>>>>),
     Arg(<<2, 2>>, <<<<0, Half>>, <<Half, 2 * One>>>>),
     Arg(<<2>>, <<<<0, One>>>>),
     Arg(<<1, 3>>, <<<<0, Half, One>>>>)}

TimeVectors == {NoArg, Arg(<<2>>, <<Half, One + Half>>),
                Arg(<<3>>, <<0, Half, One + Half>>)}

\* lims, width and step are drawn when bins is None; t and axis are drawn
\* for 0/1 data only (timestamp data does not read them)
BinRateArgs(d) ==
    LET windows ==
            [lims : LimsArgs,
             width : {Num(Half, FALSE), Num(One, FALSE), Num(One, TRUE)},
             step : {None, Num(Half, FALSE)},
             bins : {NoArg}]
            \cup [lims : {NoArg}, width : {Num(50 * Ms, FALSE)}, step : {None},
                  bins : BinsArgs]
        rest == IF d.dtype \in {"bool", "int"}
                THEN [count : BOOLEAN, axis : {-1, 0, 1}, t : TimeVectors]
                ELSE [count : BOOLEAN, axis : {-1}, t : {NoArg}]
    IN  {[lims |-> w.lims, width |-> w.width, step |-> w.step, bins |-> w.bins,
          count |-> r.count, axis |-> r.axis, t |-> r.t, data |-> d] :
            w \in windows, r \in rest}

CallBinRate ==
    /\ op = "none"
    /\ \E a \in BinRateArgs(data) :
        /\ op' = "bin_rate"
        /\ args' = a
        /\ ret' = bin_rate(data, a.lims, a.width, a.step, a.bins, a.count,
                           a.axis, a.t)
        /\ data' = after_spike_data_type(data)

InitBin ==
    /\ op = "none" /\ args = [none |-> TRUE] /\ ret = [ok |-> TRUE]
    /\ \/ data \in SingleTrains
       \/ data \in IntegerTrains
       \/ data \in Collections
       \/ data \in BinaryTrains
NextBin == CallBinRate
SpecBin == InitBin /\ [][NextBin]_vars

-----------------------------------------------------------------------------
(* Calls of the two counting paths on the same train and regular bins *)

MaxBins == 3         \* most bins of a regular WindowSet drawn

NotCalled == [called |-> FALSE, ok |-> FALSE, value |-> <<>>]
Called(r) == [called |-> TRUE, ok |-> r.ok, value |-> IF r.ok THEN r.value ELSE <<>>]

\* equal-width bins, each starting where the previous one ends
RegularBins ==
    {[j \in 1..n |-> <<s + (j - 1) * w, s + j * w>>] :
        s \in {0, Half}, w \in {Half, One}, n \in 1..MaxBins}

CallHistogramCount ==
    /\ op \in {"drawn", "_custom_bin_count"}
    /\ ~ret.hist.called
    /\ op' = "_histogram_count"
    /\ ret' = [ret EXCEPT !.hist =
                  Called(_histogram_count(data.elems, bin_edges(args.bins)))]
    /\ UNCHANGED <<args, data>>

CallCustomBinCount ==
    /\ op \in {"drawn", "_histogram_count"}
    /\ ~ret.custom.called
    /\ op' = "_custom_bin_count"
    /\ ret' = [ret EXCEPT !.custom =
                  Called(_custom_bin_count(data.elems, args.bins))]
    /\ UNCHANGED <<args, data>>

InitCount ==
    /\ op = "drawn"
    /\ data \in {Array("ndarray", "float", <<Len(e)>>, e, FALSE) : e \in Trains}
    /\ args \in [bins : RegularBins]
    /\ ret = [hist |-> NotCalled, custom |-> NotCalled]
NextCount == CallHistogramCount \/ CallCustomBinCount
SpecCount == InitCount /\ [][NextCount]_vars

-----------------------------------------------------------------------------
(* Calls of the converters: times_to_bool, then bool_to_times on its result *)

MaxMsTick == 9       \* latest spike of a converted train, in ticks (4.5 ms)

MsTrains == SeqsUpTo(0..MaxMsTick, MaxSpikes)

ConvArgs == [lims : {Arg(<<2>>, <<0, 4 * Ms>>), Arg(<<2>>, <<Ms, 4 * Ms>>)},
             width : {Num(Ms, FALSE), Num(2 * Ms, FALSE)}]

CallTimesToBool ==
    /\ op = "none"
    /\ \E a \in ConvArgs :
        /\ op' = "times_to_bool"
        /\ args' = [lims |-> a.lims, width |-> a.width, data |-> data]
        /\ ret' = times_to_bool(data, a.lims, a.width)
        /\ data' = after_spike_data_type(data)

CallBoolToTimes ==
    /\ op = "times_to_bool"
    /\ ret.ok
    /\ op' = "bool_to_times"
    /\ args' = [lims |-> args.lims, width |-> args.width, data |-> args.data,
                spike_bool |-> ret.spike_bool, t |-> ret.timepts]
    /\ ret' = bool_to_times(ret.spike_bool, ret.timepts, -1)
    /\ UNCHANGED data

InitConv ==
    /\ op = "none" /\ args = [none |-> TRUE] /\ ret = [ok |-> TRUE]
    /\ data \in {Array(k, "float", <<Len(e)>>, e, FALSE) :
                    k \in {"list", "ndarray"}, e \in MsTrains}
NextConv == CallTimesToBool \/ CallBoolToTimes
SpecConv == InitConv /\ [][NextConv]_vars

-----------------------------------------------------------------------------
(* Properties of the window generator *)

IsWinCall == op = "setup_sliding_windows"

\* the value exclude_end takes in the call
EffectiveExcludeEnd ==
    IF args.exclude_end = "None" THEN args.force_int ELSE args.exclude_end = "True"

EffectiveStep == IF args.step.none THEN args.width.v ELSE args.step.v

\* number of k >= 0 whose window [lims0 + k*step, lims0 + k*step + width]
\* ends at or before lims[1]
FittingWindows ==
    IF args.lims[2] - args.width.v < args.lims[1] THEN 0
    ELSE ((args.lims[2] - args.width.v - args.lims[1]) \div EffectiveStep) + 1

\* C6: without a reference and without exclude_end (and without rounding) the
\* result is exactly the windows [lims0 + k*step, lims0 + k*step + width],
\* k = 0..K, K the last k whose window ends at or before lims[1]; no window
\* ends beyond lims[1], for integer and non-integer step and width alike.
C6_ExactWindows ==
    (IsWinCall /\ args.reference.none /\ ~EffectiveExcludeEnd /\ ~args.force_int)
    => /\ ret.ok
       /\ Len(ret.windows) = FittingWindows
       /\ \A k \in DOMAIN ret.windows :
            /\ ret.windows[k][1] = args.lims[1] + (k - 1) * EffectiveStep
            /\ ret.windows[k][2] = ret.windows[k][1] + args.width.v
            /\ ret.windows[k][2] <= args.lims[2]

\* C7: with a reference the call returns windows in ascending order, one of
\* which starts at reference, whose starts are exactly the values
\* reference + k*step (k an integer) from lims[0] up to the last window that
\* fits within lims[1].
C7_ReferenceAnchored ==
    (IsWinCall /\ ~args.reference.none /\ ~EffectiveExcludeEnd /\ ~args.force_int)
    => /\ ret.ok
       /\ \A k \in DOMAIN ret.windows :
            /\ (ret.windows[k][1] - args.reference.v) % EffectiveStep = 0
            /\ args.lims[1] <= ret.windows[k][1]
            /\ ret.windows[k][1] + args.width.v <= args.lims[2]
            /\ k > 1 => ret.windows[k - 1][1] < ret.windows[k][1]
       /\ (args.lims[1] <= args.reference.v
           /\ args.reference.v + args.width.v <= args.lims[2])
          => \E k \in DOMAIN ret.windows : ret.windows[k][1] = args.reference.v

\* the integer samples of the closed window w
SamplesOf(w) == {m \in (w[1] \div One)..((w[2] \div One) + 1) :
                    w[1] <= m * One /\ m * One <= w[2]}

NoSharedSample ==
    \A i, j \in DOMAIN ret.windows :
        i < j => SamplesOf(ret.windows[i]) \cap SamplesOf(ret.windows[j]) = {}

WholeInputs == IsWhole(args.lims[1]) /\ IsWhole(args.width.v) /\ IsWhole(EffectiveStep)

WindowLengthIs(len) ==
    \A k \in DOMAIN ret.windows : ret.windows[k][2] = ret.windows[k][1] + len

-----------------------------------------------------------------------------
(* Properties of the classifier *)

\* C9: the classifier decides: "bool" if the dtype is boolean or numeric
\* with every value in {0,1} (an empty numeric vector included); otherwise
\* "timestamp" if the input is an object collection or a 1-D numeric
\* sequence sorted ascending; otherwise "rate" if numeric; otherwise it
\* raises.  The decision is that of the input as the caller passed it.
C9_Decision ==
    op = "_spike_data_type"
    => LET a == args.data
           binary == \/ a.dtype = "bool"
                     \/ /\ a.dtype \in {"int", "float"}
                        /\ \A i \in DOMAIN a.elems : a.elems[i] \in {0, One}
           stamps == \/ a.dtype = "object"
                     \/ /\ a.dtype \in {"int", "float"}
                        /\ Len(a.shape) = 1
                        /\ IsAscending(a.elems)
       IN  IF binary THEN ret.ok /\ ret.type = "bool"
           ELSE IF stamps THEN ret.ok /\ ret.type = "timestamp"
           ELSE IF a.dtype \in {"int", "float"} THEN ret.ok /\ ret.type = "rate"
           ELSE ~ret.ok

-----------------------------------------------------------------------------
(* Properties of the binned-rate estimator *)

HalfOpenCount(train, bin) ==
    Cardinality({k \in DOMAIN train : bin[1] <= train[k] /\ train[k] < bin[2]})

\* C1: on every train and every regular WindowSet the histogram path and the
\* explicit inclusion path return the same count in every bin, also for
\* spikes on the first, an interior and the last edge.
C1_PathsAgree ==
    (op \in {"_histogram_count", "_custom_bin_count"}
     /\ ret.hist.called /\ ret.custom.called)
    => /\ ret.hist.ok /\ ret.custom.ok
       /\ ret.hist.value = ret.custom.value

IsBinCall == op = "bin_rate"

\* the caller passed timestamps: a collection of trains or one 1-D train
StampInput ==
    \/ args.data.dtype = "object"
    \/ args.data.dtype = "float" /\ Len(args.data.shape) = 1

InputTrains ==
    IF args.data.dtype = "object" THEN args.data.elems ELSE <<args.data.elems>>

BatchShape == IF args.data.dtype = "object" THEN args.data.shape ELSE <<>>

\* the count behind a returned cell (a rate is <<count, width>>)
CellCount(n) ==
    IF args.count THEN ret.rates.elems[n] ELSE ret.rates.elems[n][1]

\* C2: for every bin (regular or custom; first, interior or last) a spike t
\* is counted in the bin iff start <= t < end: every returned count is the
\* number of the train's spikes in [start, end).
C2_HalfOpenMembership ==
    (IsBinCall /\ StampInput /\ ret.ok)
    => \A i \in DOMAIN InputTrains : \A j \in DOMAIN ret.bins :
          CellCount((i - 1) * Len(ret.bins) + j)
              = HalfOpenCount(InputTrains[i], ret.bins[j])

RECURSIVE SumSeq(_)
SumSeq(s) == IF s = <<>> THEN 0 ELSE Head(s) + SumSeq(Tail(s))

\* C3: with lims, count=True and the default step, the counts of each train
\* sum over the bins to the number of its spikes with lims[0] <= t < lims[1].
C3_CountsSumToSpikesInLims ==
    (IsBinCall /\ StampInput /\ ret.ok
     /\ args.count /\ args.bins.none /\ ~args.lims.none /\ args.step.none)
    => \A i \in DOMAIN InputTrains :
          SumSeq([j \in DOMAIN ret.bins |-> CellCount((i - 1) * Len(ret.bins) + j)])
              = HalfOpenCount(InputTrains[i], args.lims.v)

\* the WindowSet the call asks for (given, or generated from lims)
GivenWindows == ~args.bins.none \/ ~args.lims.none
GoodBinsShape ==
    args.bins.none \/ (Len(args.bins.shape) = 2 /\ args.bins.shape[2] = 2)
AskedBins ==
    IF args.bins.none
    THEN setup_sliding_windows(args.width, args.lims.v, args.step, None,
                               FALSE, "None").windows
    ELSE args.bins.v

\* the caller passed a boolean array with a matching time vector
BoolInput ==
    /\ args.data.dtype = "bool"
    /\ ~args.t.none
    /\ args.axis \in -Len(args.data.shape)..(Len(args.data.shape) - 1)
    /\ Len(args.t.v) = args.data.shape[norm_axis(args.axis, Len(args.data.shape)) + 1]

\* C4: for timestamp input of batch shape S and n_bins >= 1 the result has
\* shape S + (n_bins,) ((n_bins,) for a single train) and the row of batch
\* index i is what the train at i gives alone; for boolean input of shape S
\* and time axis k the result has shape S with axis k of length n_bins.
\* (A single train whose values all lie in {0,1} is left out: the classifier
\* takes it for boolean input.)
C4_ResultShape ==
    (IsBinCall /\ GivenWindows /\ GoodBinsShape /\ Len(AskedBins) >= 1)
    => /\ (StampInput /\ ~_isbinary(args.data))
          => /\ ret.ok
             /\ ret.rates.shape = BatchShape \o <<Len(AskedBins)>>
             /\ \A i \in DOMAIN InputTrains :
                  LET alone == bin_rate(
                          Array("ndarray", "object", <<1>>, <<InputTrains[i]>>, FALSE),
                          args.lims, args.width, args.step, args.bins,
                          args.count, args.axis, args.t)
                  IN  /\ alone.ok
                      /\ \A j \in 1..Len(AskedBins) :
                            ret.rates.elems[(i - 1) * Len(AskedBins) + j]
                                = alone.rates.elems[j]
       /\ BoolInput
          => /\ ret.ok
             /\ ret.rates.shape =
                  [args.data.shape EXCEPT
                      ![norm_axis(args.axis, Len(args.data.shape)) + 1] = Len(AskedBins)]

\* C5: the call fails when neither lims nor bins is given, when bins is not
\* (n, 2), and when 0/1 data comes without t; every other well-formed call
\* (timestamps, or a boolean array with a matching t; at least one bin)
\* returns a result.
C5_FailsExactlyWhen ==
    (IsBinCall
     /\ (StampInput \/ args.data.dtype = "bool")
     /\ (args.data.dtype = "bool" /\ ~args.t.none => BoolInput)
     /\ (GivenWindows /\ GoodBinsShape => Len(AskedBins) >= 1))
    => (~ret.ok <=> \/ ~GivenWindows
                    \/ ~GoodBinsShape
                    \/ _isbinary(args.data) /\ args.t.none)

-----------------------------------------------------------------------------
(* Properties of the converters *)

\* the bin centers whose bin [c - width/2, c + width/2) holds a spike of T
CentersWithSpike(train, timepts, width) ==
    SelectSeq(timepts, LAMBDA c :
        \E k \in DOMAIN train : c - (width \div 2) <= train[k]
                                /\ train[k] < c + (width \div 2))

\* C10: bool_to_times(times_to_bool(T, lims, width)) returns exactly the
\* centers, ascending, of the bins that hold at least one spike of T: one
\* timestamp per such bin, none for spikes outside the binned range.
C10_RoundTrip ==
    /\ op = "times_to_bool" => ret.ok
    /\ op = "bool_to_times"
       => /\ ret.ok
          /\ ret.value.elems = CentersWithSpike(args.data.elems, args.t, args.width.v)
          /\ \A k \in 1..(Len(ret.value.elems) - 1) :
                ret.value.elems[k] < ret.value.elems[k + 1]

-----------------------------------------------------------------------------
(* Calls of bool_to_times, and of bin_rate, on 0/1 arrays of one to three  *)
(* dimensions, in either memory layout                                     *)

\* the time vector of n samples: 1 ms, 2 ms, ...
TimeOf(n) == [i \in 1..n |-> i * Ms]

MaskShapes == {<<2>>, <<3>>, <<2, 2>>, <<2, 3>>,
               <<2, 2, 2>>}

\* a Fortran-ordered array is drawn as such only when it has two axes or more
BoolMasks ==
    UNION {{Array("ndarray", "bool", sh, e, f) :
              e \in [1..Prod(sh) -> BOOLEAN],
              f \in IF Len(sh) = 1 THEN {FALSE} ELSE BOOLEAN} : sh \in MaskShapes}

NumberMasks ==
    UNION {{Array("ndarray", dt, sh, e, FALSE) :
              e \in [1..Prod(sh) -> {0, One}], dt \in {"int", "float"}} :
           sh \in {<<2>>, <<3>>, <<2, 2>>}}

\* two overlapping bins over the time vector (counted by the custom path)
MaskBins == Arg(<<2, 2>>, <<<<0, 2 * Ms + HalfMs>>, <<Ms + HalfMs, 4 * Ms>>>>)

CallBoolToTimesAxis ==
    /\ op = "none"
    /\ \E axis \in (-ndim(data))..(ndim(data) - 1) :
        /\ op' = "bool_to_times"
        /\ args' = [axis |-> axis,
                    t |-> TimeOf(data.shape[norm_axis(axis, ndim(data)) + 1])]
        /\ ret' = bool_to_times(data, args'.t, axis)
        /\ UNCHANGED data

CallBinRateMask ==
    /\ op = "none"
    /\ ndim(data) = 1
    /\ op' = "bin_rate"
    /\ args' = [axis |-> -1, t |-> TimeOf(data.shape[1])]
    /\ ret' = bin_rate(data, NoArg, Num(50 * Ms, FALSE), None, MaskBins, TRUE,
                       -1, Arg(<<data.shape[1]>>, args'.t))
    /\ data' = after_spike_data_type(data)

InitMask ==
    /\ op = "none" /\ args = [none |-> TRUE] /\ ret = [ok |-> TRUE]
    /\ \/ data \in BoolMasks
       \/ data \in NumberMasks
NextMask == CallBoolToTimesAxis \/ CallBinRateMask
SpecMask == InitMask /\ [][NextMask]_vars

-----------------------------------------------------------------------------
(* Properties of bool_to_times *)

\* seq with v put in at 0-based position k
InsertAt(seq, k, v) == SubSeq(seq, 1, k) \o <<v>> \o SubSeq(seq, k + 1, Len(seq))

MaskAxis == norm_axis(args.axis, ndim(data))
BatchShapeOf(a, k) == [i \in 1..(ndim(a) - 1) |-> a.shape[IF i <= k THEN i ELSE i + 1]]

\* the train of a at batch index bidx along the time axis k
TrainAt(a, k, bidx) ==
    [j \in 1..a.shape[k + 1] |-> At(a, InsertAt(bidx, k, j - 1))]

\* the entries of t at the positions where the train is 1 / True, in order
MaskedTimes(train, dtype, t) ==
    LET on == {j \in DOMAIN train :
                  IF dtype = "bool" THEN train[j] ELSE train[j] = One}
    IN  [n \in 1..Cardinality(on) |->
            t[CHOOSE j \in on : Cardinality({i \in on : i < j}) = n - 1]]

ExpectedTimes(bidx) == MaskedTimes(TrainAt(data, MaskAxis, bidx), data.dtype, args.t)

\* C11: for every 0/1 train (dtype bool, or numbers all in {0,1})
\* bool_to_times returns exactly the entries of t where the train is 1, in
\* order (a 1-D train gives a flat vector; the trains of an n-d array give
\* these lists, in whatever arrangement), and bin_rate on a 1-D 0/1 train
\* counts exactly these timestamps in every bin.
C11_TimesWhereOne ==
    /\ op = "bool_to_times"
       => /\ ret.ok
          /\ IF ndim(data) = 1
             THEN /\ ret.value.dtype = "float"
                  /\ ret.value.elems = ExpectedTimes(<<>>)
             ELSE /\ Len(ret.value.elems) = Prod(BatchShapeOf(data, MaskAxis))
                  /\ \A bidx \in Indices(BatchShapeOf(data, MaskAxis)) :
                        \E n \in DOMAIN ret.value.elems :
                            ret.value.elems[n] = ExpectedTimes(bidx)
    /\ op = "bin_rate"
       => /\ ret.ok
          /\ ret.rates.elems =
                [j \in 1..2 |-> HalfOpenCount(ExpectedTimes(<<>>), MaskBins.v[j])]

\* C12: for a boolean array of any dimensionality, time axis and memory
\* layout, bool_to_times returns a collection shaped like the input without
\* the time axis whose element at each batch index is the timestamp list of
\* the input train at the same batch index.
C12_TrainsKeepPlace ==
    (op = "bool_to_times" /\ data.dtype = "bool" /\ ndim(data) >= 2)
    => /\ ret.ok
       /\ ret.value.shape = BatchShapeOf(data, MaskAxis)
       /\ \A bidx \in Indices(BatchShapeOf(data, MaskAxis)) :
             At(ret.value, bidx) = ExpectedTimes(bidx)

-----------------------------------------------------------------------------
(* Spike density: convolution of 0/1 trains with a kernel.  The arithmetic *)
(* is exact: a rate is the quotient <<numerator, denominator>> in spk/s,   *)
(* and the tiny non-zero values an FFT leaves are outside the model.       *)

\* Python's round(num/den) for den > 0: ties go to the even integer
py_round(num, den) ==
    LET q == num \div den
        r == num % den
    IN  IF 2 * r < den THEN q
        ELSE IF 2 * r > den THEN q + 1
        ELSE IF q % 2 = 0 THEN q ELSE q + 1

\* scipy.signal.windows.hann(M) for the lengths whose values are rational,
\* times 4
hann(M) ==
    CASE M = 0 -> <<>>
      [] M = 1 -> <<4>>
      [] M = 2 -> <<0, 0>>
      [] M = 3 -> <<0, 4, 0>>
      [] M = 4 -> <<0, 3, 3, 0>>
      [] M = 5 -> <<0, 2, 4, 2, 0>>

\* scipy.signal.windows.gaussian(6, 1): exp(-x^2/2) at x = -2.5 .. 2.5,
\* times 1000 and rounded
gaussian(M, std) == <<44, 325, 882, 882, 325, 44>>

\* _str_to_kernel(kernel, width): width is wnum/One samples
_str_to_kernel(kernel, wnum) ==
    IF kernel \in {"hann", "hanning"}
    THEN [ok |-> TRUE, value |-> hann(py_round(2 * wnum, One))]
    ELSE IF kernel \in {"gaussian", "normal"}
    THEN [ok |-> TRUE, value |-> gaussian(py_round(6 * wnum, One), wnum \div One)]
    ELSE Raise("ValueError")

\* scipy.signal.convolve(row, kern, mode='same'): the middle Len(row) values
\* of the full convolution
convolve_same(row, kern) ==
    LET n == Len(row)
        m == Len(kern)
        full(k) == SumSeq([i \in 1..n |->
                      IF k - i + 1 \in 1..m THEN row[i] * kern[k - i + 1] ELSE 0])
    IN  [j \in 1..n |-> full(j + (m - 1) \div 2)]

\* seq[nb:-nb] and seq[0::k]
\* (seq[0:-0] is empty)
remove_ends(seq, nb) ==
    IF nb = 0 \/ 2 * nb >= Len(seq) THEN <<>>
    ELSE SubSeq(seq, nb + 1, Len(seq) - nb)
every_kth(seq, k) == [j \in 1..CeilDiv(Len(seq), k) |-> seq[(j - 1) * k + 1]]

\* row i of an array whose last axis has length n
RowOf(a, i, n) == [j \in 1..n |-> a.elems[(i - 1) * n + j]]

reflect_mut(row, nb) ==
    LET n == Len(row)
    IN  [k \in 1..(n + 2 * nb) |->
            IF k <= nb THEN row[nb - k + 1]
            ELSE IF k <= nb + n THEN row[k - nb]
            ELSE row[n - (k - nb - n) + 1]]

\* data.take(idxs, axis=-1): the buffer of nb samples mirrored at both ends of
\* every row of length n
reflect(row, nb) ==
    LET n == Len(row)
    IN  [k \in 1..(n + 2 * nb) |->
            IF k <= nb THEN row[nb - k + 2]
            ELSE IF k <= nb + n THEN row[k - nb]
            ELSE row[n - (k - nb - n)]]

\* the part of times_to_bool with bins given: bin_rate(spike_times, bins=bins)
\* as booleans (non-zero, inf and nan are True)
times_to_bool_bins(spike_times, bins) ==
    Only({IF ~r.ok THEN r
          ELSE [ok |-> TRUE,
                spike_bool |-> Array("ndarray", "bool", r.rates.shape,
                    [n \in DOMAIN r.rates.elems |->
                        ~(r.rates.elems[n][1] = 0 /\ r.rates.elems[n][2] # 0)],
                    FALSE)] :
          r \in {bin_rate(spike_times, NoArg, Num(50 * Ms, FALSE), None,
                          Arg(<<Len(bins), 2>>, bins), FALSE, -1, NoArg)}})

\* density, from the convolution on: sig holds the trains as rows of numbers
\* (unit of them make 1) along its last axis, buffer included; K is the
\* kernel before it is normalised, smp_rate the sampling rate found from t
density_conv(sig, unit, K, smp_rate, n_buffer, buffered, downsmp) ==
    LET n == sig.shape[Len(sig.shape)]
        n_rows == Prod(sig.shape) \div Max(n, 1)
        den == SumSeq(K)
        trim(seq) == IF buffered THEN remove_ends(seq, n_buffer) ELSE seq
        down(seq) == IF downsmp # 1 THEN every_kth(seq, downsmp) ELSE seq
        n_out == Len(down(trim([j \in 1..n |-> 0])))
    IN  Only({
          [shape |-> [sig.shape EXCEPT ![Len(sig.shape)] = n_out],
           conv |-> [k \in 1..(n_rows * n_out) |->
                        rows[((k - 1) \div n_out) + 1].conv[((k - 1) % n_out) + 1]],
           elems |-> [k \in 1..(n_rows * n_out) |->
                        IF rows[((k - 1) \div n_out) + 1].no_spike
                        THEN <<0, 1>>
                        ELSE rows[((k - 1) \div n_out) + 1].conv[((k - 1) % n_out) + 1]]] :
          rows \in {[i \in 1..n_rows |->
              Only({[no_spike |-> \A j \in DOMAIN trim(row) : trim(row)[j] = 0,
                     conv |-> Only({
                         [j \in DOMAIN c |-> <<c[j] * smp_rate, den * unit>>] :
                         c \in {down(trim(convolve_same(row, K)))}})] :
                    row \in {RowOf(sig, i, n)}})]}})

\* the numbers a train is convolved as: True is 1, a number is itself (in
\* ticks, One to the unit)
as_number(x, dtype) == IF dtype = "bool" THEN (IF x THEN 1 ELSE 0) ELSE x

\* density(data, kernel, width, lims, smp_rate, buffer, downsmp, axis, t).
\* t, when given, is evenly sampled with at least two samples.  Beside the
\* returned rates and t the result records the data and the time vector as
\* they enter the convolution (padded, t_padded), time on the last axis.
density(d, kernel, width, lims, smp_rate0, buffer0, downsmp, axis0, t0) ==
    Only({
      LET is_bool == data_type.ok /\ data_type.type = "bool"
          is_stamp == data_type.ok /\ data_type.type = "timestamp"
          \* the array as the classifier leaves it
          dd == after_spike_data_type(d)
          axis == IF axis0 < 0 THEN Len(d.shape) + axis0 ELSE axis0
          buffer == IF ~buffer0.none THEN buffer0.v
                    ELSE IF kernel \in {"hann", "hanning"} THEN width
                    ELSE IF kernel \in {"gaussian", "normal"} THEN 3 * width
                    ELSE 0
          t == IF t0.none
               THEN [k \in 1..arange_len(Fine * lims.v[1], Fine * lims.v[2] + Eps,
                                         Fine * (One \div smp_rate0)) |->
                        lims.v[1] + (k - 1) * (One \div smp_rate0)]
               ELSE t0.v
          dt == (t[Len(t)] - t[1]) \div (Len(t) - 1)
          smp_rate == py_round(One, dt)
          n_buffer == IF buffer # 0 THEN py_round(buffer * smp_rate, One) ELSE 0
          \* np.arange(t[0]-dt, t[0]-n_buffer*dt-1e-12, -dt), flipped, and
          \* np.arange(t[-1]+dt, t[-1]+n_buffer*dt+1e-12, dt)
          n_before == arange_len(Fine * (dt - t[1]),
                                 Fine * (n_buffer * dt - t[1]) + Eps, Fine * dt)
          n_after == arange_len(Fine * (t[Len(t)] + dt),
                                Fine * (t[Len(t)] + n_buffer * dt) + Eps, Fine * dt)
          t_buf == [k \in 1..n_before |-> t[1] - (n_before - k + 1) * dt]
                   \o t
                   \o [k \in 1..n_after |-> t[Len(t)] + k * dt]
          t_out == LET tr == IF buffer # 0 THEN remove_ends(t_buf, n_buffer) ELSE t
                   IN  IF downsmp # 1 THEN every_kth(tr, downsmp) ELSE tr
      IN  IF ~data_type.ok THEN data_type
          ELSE IF axis0 < 0 /\ d.kind = "list" THEN Raise("AttributeError")
          ELSE IF is_bool /\ t0.none THEN Raise("AssertionError: t")
          ELSE IF t0.none /\ lims.none THEN Raise("TypeError")
          ELSE IF is_bool /\ buffer # 0 /\ n_buffer >= dd.shape[axis + 1]
          THEN Raise("IndexError")
          ELSE Only({
            IF ~K.ok THEN K
            ELSE Only({
              IF ~sig.ok THEN sig
              ELSE Only({
                [ok |-> TRUE,
                 rates |-> IF is_bool /\ axis # Len(dd.shape)
                           THEN np_moveaxis([r EXCEPT !.conv = <<>>], -1, axis)
                           ELSE [r EXCEPT !.conv = <<>>],
                 conv |-> r.conv,
                 padded |-> sig.value,
                 t_padded |-> IF buffer # 0 THEN t_buf ELSE t,
                 t |-> t_out] :
                r \in {density_conv(sig.value, IF is_bool \/ is_stamp THEN 1 ELSE One,
                                    K.value, smp_rate, n_buffer,
                                    buffer # 0, downsmp)}}) :
              sig \in {
                IF is_stamp
                THEN Only({
                       IF ~b.ok THEN b
                       ELSE [ok |-> TRUE,
                             value |-> [shape |-> b.spike_bool.shape,
                                        elems |-> [n \in DOMAIN b.spike_bool.elems |->
                                           as_number(b.spike_bool.elems[n], "bool")]]] :
                       b \in {times_to_bool_bins(dd,
                                [k \in DOMAIN t_buf |->
                                   <<t_buf[k] - dt \div 2, t_buf[k] + dt \div 2>>])}})
                ELSE Only({
                       [ok |-> TRUE,
                        value |-> [shape |-> [moved.shape EXCEPT ![Len(moved.shape)] =
                                                IF is_bool THEN @ + 2 * n_buffer ELSE @],
                                   elems |-> LET n == moved.shape[Len(moved.shape)]
                                                 w == IF is_bool THEN n + 2 * n_buffer ELSE n
                                             IN  [k \in 1..((Len(moved.elems) \div n) * w) |->
                                                    LET row == RowOf(moved, ((k - 1) \div w) + 1, n)
                                                        num == [j \in 1..n |-> as_number(row[j], dd.dtype)]
                                                    IN  IF is_bool
                                                        THEN reflect(num, n_buffer)[((k - 1) % w) + 1]
                                                        ELSE num[((k - 1) % w) + 1]]]] :
                       moved \in {np_moveaxis(dd, axis, -1)}})}}) :
            K \in {_str_to_kernel(kernel, width * smp_rate)}}) :
      data_type \in {_spike_data_type(d)}})

-----------------------------------------------------------------------------
(* Calls of density *)

\* trains of a collection: none, one spike in the range [0, 4 ms], on its
\* ends, before it, two spikes in one sample and in two
DensTrains == {<<>>, <<2 * Ms>>, <<0>>, <<4 * Ms>>, <<-Ms>>,
               <<Ms + HalfMs, 2 * Ms>>, <<Ms, 3 * Ms>>}

DensCollections ==
    {Array("ndarray", "object", <<Len(e)>>, e, FALSE) :
        e \in SeqsUpTo(DensTrains, 2) \ {<<>>}}

DensSingles ==
    {Array(k, "float", <<Len(e)>>, e, FALSE) :
        k \in {"list", "ndarray"},
        e \in {<<>>, <<2 * Ms>>, <<Ms, 3 * Ms>>, <<3 * Ms, Ms>>}}

DensMasks ==
    {Array("ndarray", "bool", <<4>>, e, FALSE) : e \in [1..4 -> BOOLEAN]}
    \cup {Array("ndarray", "bool", <<2, 3>>, e, FALSE) : e \in [1..6 -> BOOLEAN]}

\* kernel and width: Hann windows of 2, 3, 4 and 5 samples, a Gaussian of 6,
\* and a name the library does not know
KernelArgs == {<<"hanning", Ms>>, <<"hanning", Ms + HalfMs>>, <<"hanning", 2 * Ms>>,
               <<"hanning", 2 * Ms + HalfMs>>,
               <<"gaussian", Ms>>, <<"boxcar", Ms>>}

DensityArgs(d) ==
    LET common == [kw : KernelArgs,
                   buffer : {None, Num(0, FALSE), Num(HalfMs, FALSE), Num(Ms, FALSE)},
                   downsmp : {1, 2}]
        rest == IF d.dtype = "bool"
                THEN {[lims |-> NoArg, axis |-> ax, t |-> tt] :
                        ax \in {-1} \cup (IF Len(d.shape) = 2 THEN {0} ELSE {}),
                        tt \in {0, 1}}
                ELSE {[lims |-> Arg(<<2>>, <<0, hi>>), axis |-> -1, t |-> 0] :
                        hi \in {4 * Ms, 5 * Ms}}
    IN  {[kernel |-> c.kw[1], width |-> c.kw[2], buffer |-> c.buffer,
          downsmp |-> c.downsmp, lims |-> r.lims, axis |-> r.axis,
          smp_rate |-> 1000,
          t |-> IF r.t = 0 THEN NoArg
                ELSE LET n == d.shape[norm_axis(r.axis, Len(d.shape)) + 1]
                     IN  Arg(<<n>>, TimeOf(n)),
          data |-> d] : c \in common, r \in rest}

CallDensity ==
    /\ op = "none"
    /\ \E a \in DensityArgs(data) :
        /\ op' = "density"
        /\ args' = a
        /\ ret' = density(data, a.kernel, a.width, a.lims, a.smp_rate, a.buffer,
                          a.downsmp, a.axis, a.t)
        /\ data' = after_spike_data_type(data)

InitDensity ==
    /\ op = "none" /\ args = [none |-> TRUE] /\ ret = [ok |-> TRUE]
    /\ \/ data \in DensCollections
       \/ data \in DensSingles
       \/ data \in DensMasks
NextDensity == CallDensity
SpecDensity == InitDensity /\ [][NextDensity]_vars

-----------------------------------------------------------------------------
(* Properties of density *)

IsDensityCall == op = "density"

\* a call the documentation allows: a known kernel, t given with boolean
\* data, and boolean data longer than the buffer mirrored at its ends
DensityCallAllowed ==
    /\ args.kernel \in {"hanning", "gaussian"}
    /\ args.data.dtype = "bool"
       => /\ ~args.t.none
          /\ LET buffer == IF ~args.buffer.none THEN args.buffer.v
                           ELSE IF args.kernel = "hanning" THEN args.width
                           ELSE 3 * args.width
             IN  py_round(buffer * args.smp_rate, One) < Len(args.t.v)

DensAxis == norm_axis(args.axis, Len(args.data.shape))

\* the trains of the input, in row-major order of their batch index
DensTrainCount ==
    IF args.data.dtype = "object" THEN Len(args.data.elems)
    ELSE IF args.data.dtype = "bool"
    THEN Prod(BatchShapeOf(args.data, DensAxis))
    ELSE 1

\* train n has no spike at all
NoSpikeTrain(n) ==
    IF args.data.dtype = "object" THEN args.data.elems[n] = <<>>
    ELSE IF args.data.dtype = "bool"
    THEN LET bidx == CUnravel(BatchShapeOf(args.data, DensAxis), n - 1)
         IN  \A j \in 1..args.data.shape[DensAxis + 1] :
                ~At(args.data, InsertAt(bidx, DensAxis, j - 1))
    ELSE args.data.elems = <<>>

\* the returned rate of train n at output sample j
RateOf(n, j) ==
    IF args.data.dtype = "bool"
    THEN At(ret.rates,
            InsertAt(CUnravel(BatchShapeOf(args.data, DensAxis), n - 1),
                     DensAxis, j - 1))
    ELSE ret.rates.elems[(n - 1) * Len(ret.t) + j]

IsZeroRate(q) == q[1] = 0 /\ q[2] # 0
SameRate(p, q) == p = q \/ (IsZeroRate(p) /\ IsZeroRate(q))

\* C13: for a train with no spikes (a single empty train, an empty element
\* of a collection, an all-False boolean train) density returns a rate that
\* is exactly 0 at every output sample, whatever the kernel, width, buffer
\* and downsmp; a train of the same call that has spikes keeps the rate the
\* convolution gave it.
C13_NoSpikesGiveZero ==
    (IsDensityCall /\ DensityCallAllowed)
    => /\ ret.ok
       /\ Len(ret.rates.elems) = DensTrainCount * Len(ret.t)
       /\ \A n \in 1..DensTrainCount :
            IF NoSpikeTrain(n)
            THEN \A j \in 1..Len(ret.t) : IsZeroRate(RateOf(n, j))
            ELSE \A j \in 1..Len(ret.t) :
                    SameRate(RateOf(n, j), ret.conv[(n - 1) * Len(ret.t) + j])

\* the length of the edge effects of the kernel (the default buffer)
KernelReach == IF args.kernel = "hanning" THEN args.width ELSE 3 * args.width

\* the caller passed timestamps whose spikes all lie in the analysis range,
\* clear of the edge effects of the kernel, no two of a train in one sample
StampsInRange ==
    /\ args.data.dtype \in {"object", "float"}
    /\ \A i \in DOMAIN InputTrains :
          /\ \A k \in DOMAIN InputTrains[i] :
                /\ args.lims.v[1] + KernelReach <= InputTrains[i][k]
                /\ InputTrains[i][k] <= args.lims.v[2] - KernelReach
          /\ \A k, l \in DOMAIN InputTrains[i] :
                k # l => (InputTrains[i][k] + HalfMs) \div Ms
                            # (InputTrains[i][l] + HalfMs) \div Ms

\* C14: the kernel is rescaled to sum(kernel)/smp_rate = 1, and for a train
\* of timestamps with N spikes inside the analysis range the returned rates
\* satisfy sum(rate) * dt = N, dt being the sample period of the returned
\* time vector.  (Stated where it can hold at all: a kernel whose samples do
\* not sum to 0, no downsampling, spikes clear of the edge effects, a buffer
\* that is not a fraction of one sample.)
C14_RatesIntegrateToCount ==
    (IsDensityCall /\ DensityCallAllowed /\ StampsInRange
     /\ args.downsmp = 1 /\ ~(args.kernel = "hanning" /\ args.width = Ms)
     /\ args.buffer # Num(HalfMs, FALSE))
    => /\ ret.ok
       /\ Len(ret.rates.elems) = Len(InputTrains) * Len(ret.t)
       /\ \A k \in DOMAIN ret.rates.elems : ret.rates.elems[k][2] # 0
       /\ Len(ret.t) >= 2
       /\ \A n \in DOMAIN InputTrains :
            SumSeq([j \in 1..Len(ret.t) |-> RateOf(n, j)[1]]) * (ret.t[2] - ret.t[1])
                = Len(InputTrains[n]) * RateOf(n, 1)[2] * One

-----------------------------------------------------------------------------
(* Cutting timestamps into trials *)

\* data_cell[(lim[0] <= data_cell) & (data_cell < lim[1])], in order
RECURSIVE spikes_in_trial(_, _)
spikes_in_trial(data_cell, lim) ==
    IF data_cell = <<>> THEN <<>>
    ELSE (IF lim[1] <= Head(data_cell) /\ Head(data_cell) < lim[2]
          THEN <<Head(data_cell)>> ELSE <<>>)
         \o spikes_in_trial(Tail(data_cell), lim)

\* cut_trials_spike_times(data, trial_lims, trial_refs): the cut collection
\* and the caller's data after the call (boolean indexing copies the spikes
\* before the reference is subtracted from them)
cut_trials_spike_times(d, trial_lims, trial_refs) ==
    LET n_trials == trial_lims.shape[1]
        do_ref == ~trial_refs.none
        single_train == d.kind = "list" \/ d.dtype # "object"
        coll == IF single_train THEN _enclose_in_object_array(d) ELSE d
        cut(cell, trial) ==
            LET trial_spikes == spikes_in_trial(cell, trial_lims.v[trial])
            IN  IF do_ref
                THEN [k \in DOMAIN trial_spikes |->
                         trial_spikes[k] - trial_refs.v[trial]]
                ELSE trial_spikes
    IN  IF ~(Len(trial_lims.shape) = 2 /\ trial_lims.shape[2] = 2)
        THEN Raise("AssertionError: trial_lims")
        ELSE [ok |-> TRUE,
              value |-> Array("ndarray", "object", coll.shape \o <<n_trials>>,
                  [n \in 1..(Len(coll.elems) * n_trials) |->
                      cut(coll.elems[((n - 1) \div n_trials) + 1],
                          ((n - 1) % n_trials) + 1)],
                  FALSE)]

TrialLimsArgs ==
    {Arg(<<2, 2>>, <<<<0, One>>, <<One, 2 * One>>>>),
     Arg(<<2, 2>>, <<<<0, One + Half>>, <<Half, 2 * One>>>>),
     Arg(<<1, 2>>, <<<<Half, One + Half>>>>),
     Arg(<<2>>, <<<<0, One>>>>)}

TrialRefsArgs == {NoArg, Arg(<<2>>, <<Half, One>>)}

CallCutTrialsSpikeTimes ==
    /\ op = "none"
    /\ \E lims \in TrialLimsArgs, refs \in TrialRefsArgs :
        /\ op' = "cut_trials_spike_times"
        /\ args' = [data |-> data, trial_lims |-> lims, trial_refs |-> refs]
        /\ ret' = cut_trials_spike_times(data, lims, refs)
        /\ UNCHANGED data

InitCutTimes ==
    /\ op = "none" /\ args = [none |-> TRUE] /\ ret = [ok |-> TRUE]
    /\ \/ data \in SingleTrains
       \/ data \in Collections
NextCutTimes == CallCutTrialsSpikeTimes
SpecCutTimes == InitCutTimes /\ [][NextCutTimes]_vars

\* C15: cut_trials_spike_times returns, for every batch element and trial k,
\* exactly the timestamps t with trial_lims[k][0] <= t < trial_lims[k][1],
\* in order, each reduced by trial_refs[k] when given; the result has the
\* batch shape with a trailing axis of n_trials ((n_trials,) for a single
\* train); the caller's timestamps are unchanged.
C15_CutTimes ==
    (op = "cut_trials_spike_times"
     /\ Len(args.trial_lims.shape) = 2 /\ args.trial_lims.shape[2] = 2)
    => /\ ret.ok
       /\ data = args.data
       /\ ret.value.shape = BatchShape \o <<args.trial_lims.shape[1]>>
       /\ \A i \in DOMAIN InputTrains : \A k \in 1..args.trial_lims.shape[1] :
            LET got == ret.value.elems[(i - 1) * args.trial_lims.shape[1] + k]
                lim == args.trial_lims.v[k]
                want == SelectSeq(InputTrains[i],
                                  LAMBDA x : lim[1] <= x /\ x < lim[2])
            IN  got = [j \in DOMAIN want |->
                          IF args.trial_refs.none THEN want[j]
                          ELSE want[j] - args.trial_refs.v[k]]

-----------------------------------------------------------------------------
(* Cutting boolean data into trials *)

\* scipy.stats.mode: the most frequent value, the smallest of them on a tie
stats_mode(seq) ==
    LET count(v) == Cardinality({i \in DOMAIN seq : seq[i] = v})
    IN  CHOOSE v \in Range(seq) :
            \A w \in Range(seq) : count(w) < count(v) \/ (count(w) = count(v) /\ v <= w)

\* _check_window_lengths(windows, tol).  mode(...)[0][0] indexes an array in
\* the scipy releases that return the mode as an array, and raises on the
\* scalar newer releases return: scalar_mode tells which release is installed.
_check_window_lengths(windows, tol, scalar_mode) ==
    LET window_lengths == [k \in DOMAIN windows |-> windows[k][2] - windows[k][1]]
        modal_length == stats_mode(window_lengths)
    IN  \* window_lengths[0] on a 0-d array (one window)
        IF Len(windows) = 1 THEN Raise("IndexError")
        ELSE IF \A k \in DOMAIN windows : window_lengths[k] = window_lengths[1]
        THEN [ok |-> TRUE, value |-> windows]
        ELSE IF scalar_mode THEN Raise("IndexError")
        ELSE IF \E k \in DOMAIN windows :
                   window_lengths[k] - modal_length > tol
                   \/ modal_length - window_lengths[k] > tol
        THEN Raise("AssertionError: window lengths")
        ELSE [ok |-> TRUE,
              value |-> [k \in DOMAIN windows |->
                  <<windows[k][1], windows[k][2] + (modal_length - window_lengths[k])>>]]

\* cut_trials_spike_bool(data, trial_lims, smp_rate, axis)
cut_trials_spike_bool(d, trial_lims, smp_rate, axis0, scalar_mode) ==
    LET n_trials == trial_lims.shape[1]
        axis == norm_axis(axis0, Len(d.shape))
        raw == [k \in 1..n_trials |->
                   <<py_round(smp_rate.v * trial_lims.v[k][1], One),
                     py_round(smp_rate.v * trial_lims.v[k][2], One)>>]
    IN  IF smp_rate.none THEN Raise("AssertionError: smp_rate")
        ELSE IF ~(Len(trial_lims.shape) = 2 /\ trial_lims.shape[2] = 2)
        THEN Raise("AssertionError: trial_lims")
        ELSE IF \E k \in 1..n_trials : raw[k][1] < 0 \/ raw[k][2] < 0
        THEN Raise("AssertionError: before start of data")
        ELSE IF \E k \in 1..n_trials :
                   raw[k][1] >= d.shape[axis + 1] \/ raw[k][2] >= d.shape[axis + 1]
        THEN Raise("AssertionError: beyond end of data")
        ELSE Only({
          IF ~checked.ok THEN checked
          ELSE LET trial_idxs == checked.value
                   n_smp_per_trial == trial_idxs[1][2] - trial_idxs[1][1] + 1
                   cut_shape == [d.shape EXCEPT ![axis + 1] = n_smp_per_trial]
                                    \o <<n_trials>>
                   \* samples in data[lim[0]:lim[1]+1]: a slice stops at
                   \* the end of the data
                   n_sliced(k) == Min(trial_idxs[k][2] + 1, d.shape[axis + 1])
                                      - trial_idxs[k][1]
               IN  \* a slice that runs past the end of the data is shorter
                   \* than the place it is assigned to: one sample is
                   \* broadcast over the place, any other number raises
                   IF \E k \in 1..n_trials :
                         n_sliced(k) # n_smp_per_trial /\ n_sliced(k) # 1
                   THEN Raise("ValueError")
                   ELSE [ok |-> TRUE,
                         value |-> Array("ndarray", d.dtype, cut_shape,
                             [n \in 1..Prod(cut_shape) |->
                                 LET idx == CUnravel(cut_shape, n - 1)
                                     trial == idx[Len(idx)] + 1
                                     src == SubSeq(idx, 1, Len(idx) - 1)
                                 IN  At(d, [src EXCEPT ![axis + 1] =
                                               (IF n_sliced(trial) = 1 THEN 0 ELSE @)
                                                   + trial_idxs[trial][1]])],
                             FALSE)] :
          checked \in {_check_window_lengths(raw, 1, scalar_mode)}})

\* cut_trials(data, trial_lims, **kwargs): kwargs are trial_refs for
\* timestamps and smp_rate, axis for boolean data
cut_trials(d, trial_lims, trial_refs, smp_rate, axis, scalar_mode) ==
    Only({
      IF ~data_type.ok THEN data_type
      ELSE IF data_type.type = "timestamp"
      THEN cut_trials_spike_times(after_spike_data_type(d), trial_lims, trial_refs)
      ELSE IF data_type.type = "bool"
      THEN cut_trials_spike_bool(d, trial_lims, smp_rate, axis, scalar_mode)
      ELSE Raise("ValueError") :
      data_type \in {_spike_data_type(d)}})

-----------------------------------------------------------------------------
(* Calls of cut_trials *)

\* continuous boolean data: 4 samples, or 3 samples of 2 channels
CutMasks ==
    {Array("ndarray", "bool", <<4>>, e, FALSE) : e \in [1..4 -> BOOLEAN]}
    \cup {Array("ndarray", "bool", <<3, 2>>, e, FALSE) : e \in [1..6 -> BOOLEAN]}

\* trial limits for data sampled at 1000 Hz
SampleLimsArgs ==
    {Arg(<<2, 2>>, <<<<0, Ms>>, <<2 * Ms, 3 * Ms>>>>),
     Arg(<<2, 2>>, <<<<0, Ms>>, <<Ms, 2 * Ms>>>>),
     Arg(<<2, 2>>, <<<<0, 2 * Ms>>, <<2 * Ms, 4 * Ms>>>>),
     Arg(<<1, 2>>, <<<<0, Ms>>>>),
     Arg(<<2, 2>>, <<<<0, Ms>>, <<Ms, 3 * Ms>>>>),
     Arg(<<2, 2>>, <<<<HalfMs, Ms + HalfMs>>, <<2 * Ms, 3 * Ms>>>>),
     Arg(<<2, 2>>, <<<<-Ms, 0>>, <<Ms, 2 * Ms>>>>),
     Arg(<<2, 2>>, <<<<0, 0>>, <<Ms, 3 * Ms>>>>),
     Arg(<<3, 2>>, <<<<0, Ms>>, <<0, Ms>>, <<3 * Ms, 3 * Ms>>>>),
     Arg(<<3, 2>>, <<<<0, 2 * Ms>>, <<0, 2 * Ms>>, <<2 * Ms, 3 * Ms>>>>),
     Arg(<<2>>, <<<<0, Ms>>>>)}

CutTrialsArgs(d) ==
    IF d.dtype = "bool"
    THEN {[data |-> d, trial_lims |-> l, trial_refs |-> NoArg, smp_rate |-> r,
           axis |-> ax, scalar_mode |-> sm] :
            l \in SampleLimsArgs, r \in {None, Num(1000, TRUE)},
            ax \in 0..(Len(d.shape) - 1), sm \in BOOLEAN}
    ELSE {[data |-> d, trial_lims |-> l, trial_refs |-> r, smp_rate |-> None,
           axis |-> 0, scalar_mode |-> sm] :
            l \in TrialLimsArgs, r \in TrialRefsArgs, sm \in {FALSE}}

CallCutTrials ==
    /\ op = "none"
    /\ \E a \in CutTrialsArgs(data) :
        /\ op' = "cut_trials"
        /\ args' = a
        /\ ret' = cut_trials(data, a.trial_lims, a.trial_refs, a.smp_rate, a.axis,
                             a.scalar_mode)
        /\ data' = after_spike_data_type(data)

InitCut ==
    /\ op = "none" /\ args = [none |-> TRUE] /\ ret = [ok |-> TRUE]
    /\ \/ data \in CutMasks
       \/ data \in SingleTrains
       \/ data \in Collections
NextCut == CallCutTrials
SpecCut == InitCut /\ [][NextCut]_vars

-----------------------------------------------------------------------------
(* Properties of cut_trials on boolean data *)

CutAxisLen == args.data.shape[norm_axis(args.axis, Len(args.data.shape)) + 1]

\* boolean data, a sampling rate, and (n_trials, 2) limits with n_trials >= 1
IsCutBoolCall ==
    /\ op = "cut_trials" /\ args.data.dtype = "bool"
    /\ ~args.smp_rate.none
    /\ Len(args.trial_lims.shape) = 2 /\ args.trial_lims.shape[2] = 2

\* every window lies inside the recorded samples 0 .. n-1
WindowsOnSamples ==
    \A k \in DOMAIN args.trial_lims.v :
        /\ 0 <= args.trial_lims.v[k][1]
        /\ args.trial_lims.v[k][2] * args.smp_rate.v <= (CutAxisLen - 1) * One

\* the windows have the same duration to within one sample
WindowsAlike ==
    \A k, m \in DOMAIN args.trial_lims.v :
        ((args.trial_lims.v[k][2] - args.trial_lims.v[k][1])
           - (args.trial_lims.v[m][2] - args.trial_lims.v[m][1])) * args.smp_rate.v <= One

\* some window ends after n/r or starts before 0
WindowsOutOfRange ==
    \E k \in DOMAIN args.trial_lims.v :
        \/ args.trial_lims.v[k][1] < 0
        \/ args.trial_lims.v[k][2] * args.smp_rate.v > CutAxisLen * One

CutShapeAsAsked ==
    /\ Len(ret.value.shape) = Len(args.data.shape) + 1
    /\ ret.value.shape[Len(ret.value.shape)] = args.trial_lims.shape[1]
    /\ \A k \in DOMAIN args.trial_lims.v :
         LET len == ret.value.shape[norm_axis(args.axis, Len(args.data.shape)) + 1] * One
             asked == (args.trial_lims.v[k][2] - args.trial_lims.v[k][1])
                          * args.smp_rate.v
         IN  len - asked <= One /\ asked - len <= One

\* C16: for boolean data of n samples at rate r and one or more trial
\* windows, cut_trials returns an array with a new trailing axis of length
\* n_trials and a time axis within 1 sample of (end - start) * r, and it
\* raises when a window ends after n/r or starts before 0.  The success half
\* is stated for windows ending by the last sample, (n-1)/r, the last
\* position the inclusive end index of the code can name, and for windows
\* of one duration to within a sample.
C16_CutBool ==
    IsCutBoolCall
    => /\ WindowsOnSamples /\ WindowsAlike => ret.ok /\ CutShapeAsAsked
       /\ WindowsOutOfRange => ~ret.ok

-----------------------------------------------------------------------------
(* Realigning spike timestamps *)

shift_train(train, align_time) == [i \in DOMAIN train |-> train[i] - align_time]

\* The loop of realign_spike_times over enumerate(align_times), writing into
\* the caller's array (np.moveaxis returns a view of it).  For a collection
\* of two or more axes spike_times[trial,...] is an object array and the
\* assignment stores one new train per cell.  For a 1-D collection
\* spike_times[trial,...] is a 0-d object array: the subtraction yields the
\* float array of the train, and assigning it to the 0-d view broadcasts it,
\* which stores the bare float of a one-spike train (unit axes are stripped)
\* and raises ValueError for any other length.
\* Result: after = the caller's array when the loop ends or raises,
\* err = the error raised ("" for none), unboxed = flat positions (in after)
\* that hold a bare float instead of an array.
realign_in_place(spike_times, align_times, trial_axis) ==
    LET moved == IF trial_axis # 0 THEN np_moveaxis(spike_times, trial_axis, 0)
                 ELSE spike_times
        n_trials == moved.shape[1]
        per_trial == Prod(moved.shape) \div n_trials
        steps == 1..Len(align_times.v)
        fails(k) ==
            \/ k > n_trials
            \/ Len(moved.shape) = 1 /\ Len(moved.elems[k]) # 1
        failing == {k \in steps : fails(k)}
        first_fail == IF failing = {} THEN 0
                      ELSE CHOOSE k \in failing : \A m \in failing : k <= m
        done == IF failing = {} THEN Len(align_times.v) ELSE first_fail - 1
        trial_of(n) == ((n - 1) \div per_trial) + 1
        written == [moved EXCEPT !.elems =
                       [n \in DOMAIN moved.elems |->
                           IF trial_of(n) <= done
                           THEN shift_train(moved.elems[n], align_times.v[trial_of(n)])
                           ELSE moved.elems[n]]]
    IN  [after |-> IF trial_axis # 0 THEN np_moveaxis(written, 0, trial_axis)
                   ELSE written,
         err |-> IF failing = {} THEN ""
                 ELSE IF first_fail > n_trials THEN "IndexError" ELSE "ValueError",
         unboxed |-> IF Len(moved.shape) = 1 THEN 1..done ELSE {}]

\* the return value: the same memory as the caller's array
realign_spike_times(spike_times, align_times, trial_axis) ==
    Only({IF r.err # "" THEN Raise(r.err)
          ELSE [ok |-> TRUE, value |-> r.after, unboxed |-> r.unboxed] :
            r \in {realign_in_place(spike_times, align_times, trial_axis)}})

(* Calls of realign_spike_times *)

\* trial-cut collections: 1 or 2 trials, or 2 x 2 with either axis as trials
TrialCollections ==
    {Array("ndarray", "object", <<Len(e)>>, e, FALSE) :
        e \in SeqsUpTo(CollTrains, 2) \ {<<>>}}
    \cup {Array("ndarray", "object", <<2, 2>>, e, FALSE) : e \in [1..4 -> CollTrains]}

AlignTimesArgs ==
    {Arg(<<1>>, <<Half>>), Arg(<<2>>, <<Half, One>>), Arg(<<2>>, <<0, 0>>),
     Arg(<<3>>, <<Half, One, One>>)}

NoResult == Raise("none")

\* args.first: the result of the first of two calls on the same collection
CallRealignSpikeTimes ==
    /\ op = "none"
    /\ \E a \in AlignTimesArgs, ax \in 0..(Len(data.shape) - 1) :
        /\ op' = "realign_spike_times"
        /\ args' = [data |-> data, align_times |-> a, trial_axis |-> ax,
                    first |-> NoResult]
        /\ ret' = realign_spike_times(data, a, ax)
        /\ data' = realign_in_place(data, a, ax).after

\* the caller realigns the same collection again with the same align times
CallRealignSpikeTimesAgain ==
    /\ op = "realign_spike_times"
    /\ ret.ok
    /\ op' = "realign_spike_times again"
    /\ args' = [args EXCEPT !.first = ret]
    /\ ret' = realign_spike_times(data, args.align_times, args.trial_axis)
    /\ data' = realign_in_place(data, args.align_times, args.trial_axis).after

InitRealign ==
    /\ op = "none" /\ args = [none |-> TRUE] /\ ret = [ok |-> TRUE]
    /\ data \in TrialCollections
NextRealign == CallRealignSpikeTimes \/ CallRealignSpikeTimesAgain
SpecRealign == InitRealign /\ [][NextRealign]_vars

-----------------------------------------------------------------------------
(* Properties of realign_spike_times *)

\* a first call with one align time per trial
IsRealignCall ==
    /\ op = "realign_spike_times"
    /\ Len(args.align_times.v) = args.data.shape[args.trial_axis + 1]

\* C17: realign_spike_times(S, align_times, trial_axis) returns a collection
\* of the shape of S in which the train at every index is the original train
\* with align_times[k] subtracted from each timestamp, k being the index
\* along trial_axis (same number and order of timestamps), for 1-D
\* collections of trials as for multi-dimensional ones.
C17_Realigned ==
    IsRealignCall
    => /\ ret.ok
       /\ ret.value.shape = args.data.shape
       /\ \A idx \in Indices(args.data.shape) :
            At(ret.value, idx)
              = shift_train(At(args.data, idx),
                            args.align_times.v[idx[args.trial_axis + 1] + 1])

\* C20: realign_spike_times leaves the caller's collection as it was, so a
\* second call on the same collection with the same align times returns
\* what the first call returned.
C20_CallerKeepsTimes ==
    /\ IsRealignCall /\ ret.ok => data = args.data
    /\ op = "realign_spike_times again" => ret = args.first

-----------------------------------------------------------------------------
(* Realigning boolean data *)

\* [start, end] sample indexes of each trial's epoch: align time + time range,
\* each rounded to samples of width dt = mean(diff(timepts))
trial_range_smps(align_times, time_range, timepts) ==
    LET n_t == Len(timepts.v)
        dt_num == timepts.v[n_t] - timepts.v[1]
        dt_den == n_t - 1
        range_smps == [i \in 1..2 |-> py_round(time_range.v[i] * dt_den, dt_num)]
    IN  [k \in DOMAIN align_times.v |->
            LET align_smp == py_round((align_times.v[k] - timepts.v[1]) * dt_den, dt_num)
            IN  <<align_smp + range_smps[1], align_smp + range_smps[2]>>]

\* the array the extraction loop reads: axis 0 is moved to time_axis and the
\* last axis to trial_axis, as the code calls np.moveaxis
realign_moved(d, time_axis, trial_axis) ==
    LET m == IF time_axis # 0 THEN np_moveaxis(d, 0, time_axis) ELSE d
    IN  IF trial_axis # Len(d.shape) - 1 THEN np_moveaxis(m, -1, trial_axis) ELSE m

\* flat positions of np.empty(return_shape) that the loop never writes
realign_unwritten(d, align_times, time_range, timepts, time_axis0, trial_axis0) ==
    IF time_range.none \/ timepts.none THEN {}
    ELSE LET nd == Len(d.shape)
             moved == realign_moved(d, norm_axis(time_axis0, nd), norm_axis(trial_axis0, nd))
             smps == trial_range_smps(align_times, time_range, timepts)
             n_timepts_out == smps[1][2] - smps[1][1] + 1
             return_shape == <<n_timepts_out>> \o Tail(moved.shape)
         IN  IF n_timepts_out < 1 THEN {}
             ELSE {n \in 1..Prod(return_shape) :
                     CUnravel(return_shape, n - 1)[nd] >= Len(align_times.v)}

\* garbage: the values found in the cells of np.empty that are never written
realign_spike_bool(d, align_times, time_range, timepts, time_axis0, trial_axis0, garbage) ==
    IF time_range.none THEN Raise("AssertionError: time_range")
    ELSE IF timepts.none THEN Raise("AssertionError: timepts")
    ELSE
    LET nd == Len(d.shape)
        time_axis == norm_axis(time_axis0, nd)
        trial_axis == norm_axis(trial_axis0, nd)
        moved == realign_moved(d, time_axis, trial_axis)
        smps == trial_range_smps(align_times, time_range, timepts)
        n_timepts_out == smps[1][2] - smps[1][1] + 1
        return_shape == <<n_timepts_out>> \o Tail(moved.shape)
        \* length of data[t[0]:t[1]+1, ...] along axis 0
        cut_len(k) ==
            LET n0 == moved.shape[1]
                lo == IF smps[k][1] < n0 THEN smps[k][1] ELSE n0
                hi == IF smps[k][2] + 1 < n0 THEN smps[k][2] + 1 ELSE n0
            IN  IF hi > lo THEN hi - lo ELSE 0
        index_fails(k) == nd < 2 \/ k > moved.shape[nd]
        shape_fails(k) == cut_len(k) # n_timepts_out /\ cut_len(k) # 1
        failing == {k \in DOMAIN smps : index_fails(k) \/ shape_fails(k)}
        first_fail == CHOOSE k \in failing : \A m \in failing : k <= m
        cell(idx) ==
            LET k == idx[nd] + 1
                j == IF cut_len(k) = 1 THEN 0 ELSE idx[1]
            IN  as_number(At(moved, <<smps[k][1] + j>> \o Tail(idx)), d.dtype)
        realigned == Array("ndarray", "float", return_shape,
                        [n \in 1..Prod(return_shape) |->
                            IF n \in DOMAIN garbage THEN garbage[n]
                            ELSE cell(CUnravel(return_shape, n - 1))],
                        FALSE)
        back == IF time_axis # 0 THEN np_moveaxis(realigned, 0, time_axis) ELSE realigned
    IN  IF \E k \in DOMAIN smps : smps[k][1] < 0
        THEN Raise("AssertionError: before start of data")
        ELSE IF \E k \in DOMAIN smps : smps[k][2] >= Len(timepts.v)
        THEN Raise("AssertionError: beyond end of data")
        ELSE IF failing # {}
        THEN IF index_fails(first_fail) THEN Raise("IndexError") ELSE Raise("ValueError")
        ELSE [ok |-> TRUE,
              value |-> IF trial_axis # nd - 1 THEN np_moveaxis(back, -1, trial_axis)
                        ELSE back]

(* Calls of realign_spike_bool *)

\* 3 time points, 2 units, 2 trials, the axes in every order; or no unit axis
TrialShapes ==
    {<<3, 2, 2>>, <<2, 3, 2>>, <<2, 2, 3>>, <<3, 2>>, <<2, 3>>}

\* boolean data with at most one spike
TrialMasks ==
    {Array("ndarray", "bool", sh, [n \in 1..Prod(sh) |-> n = hot], FALSE) :
        sh \in TrialShapes, hot \in 0..12}

UninitValues == {0, 1}

RealignBoolArgs(d) ==
    {[data |-> d, align_times |-> Arg(<<2>>, <<tp[1] + a[1], tp[1] + a[2]>>),
      time_range |-> Arg(<<2>>, r), timepts |-> Arg(<<3>>, tp),
      time_axis |-> tx, trial_axis |-> kx] :
        a \in {<<0, Ms>>, <<Ms, Ms>>, <<HalfMs, Ms + HalfMs>>},
        r \in {<<0, Ms>>, <<-Ms, 0>>, <<0, 0>>, <<-Ms, Ms>>},
        tp \in {<<0, Ms, 2 * Ms>>, <<Ms, 2 * Ms, 3 * Ms>>},
        tx \in {i \in -1..(Len(d.shape) - 1) :
                    d.shape[norm_axis(i, Len(d.shape)) + 1] = 3},
        kx \in {i \in -1..(Len(d.shape) - 1) :
                    d.shape[norm_axis(i, Len(d.shape)) + 1] = 2}}

CallRealignSpikeBool ==
    /\ op = "none"
    /\ \E a \in RealignBoolArgs(data) :
       \E garbage \in [realign_unwritten(data, a.align_times, a.time_range, a.timepts,
                                         a.time_axis, a.trial_axis) -> UninitValues] :
        /\ op' = "realign_spike_bool"
        /\ args' = a
        /\ ret' = realign_spike_bool(data, a.align_times, a.time_range, a.timepts,
                                     a.time_axis, a.trial_axis, garbage)
        /\ data' = data

InitRealignBool ==
    /\ op = "none" /\ args = [none |-> TRUE] /\ ret = [ok |-> TRUE]
    /\ data \in TrialMasks
NextRealignBool == CallRealignSpikeBool
SpecRealignBool == InitRealignBool /\ [][NextRealignBool]_vars

-----------------------------------------------------------------------------
(* Properties of realign_spike_bool *)

RealignTimeAxis == norm_axis(args.time_axis, Len(args.data.shape))
RealignTrialAxis == norm_axis(args.trial_axis, Len(args.data.shape))
RealignWindows == trial_range_smps(args.align_times, args.time_range, args.timepts)

\* every trial's window lies within samples 0 .. len(timepts) - 1
WindowsInData ==
    \A k \in DOMAIN RealignWindows :
        RealignWindows[k][1] >= 0 /\ RealignWindows[k][2] < Len(args.timepts.v)

\* C18: for boolean data and any positions of the time and trial axes,
\* realign_spike_bool returns an array of the input's shape with the time
\* axis of length L = round(time_range[1]/dt) - round(time_range[0]/dt) + 1,
\* whose sample j of trial k, at every other index, is the input sample
\* round((align_times[k] - timepts[0])/dt) + round(time_range[0]/dt) + j of
\* the same trial; it fails if a trial's window starts before sample 0 or
\* ends at or after len(timepts).
C18_RealignedBool ==
    op = "realign_spike_bool"
    => IF WindowsInData
       THEN /\ ret.ok
            /\ ret.value.shape
                 = [args.data.shape EXCEPT ![RealignTimeAxis + 1] =
                        RealignWindows[1][2] - RealignWindows[1][1] + 1]
            /\ \A idx \in Indices(ret.value.shape) :
                 At(ret.value, idx)
                   = as_number(
                       At(args.data,
                          [idx EXCEPT ![RealignTimeAxis + 1] =
                              RealignWindows[idx[RealignTrialAxis + 1] + 1][1] + @]),
                       "bool")
       ELSE ~ret.ok

-----------------------------------------------------------------------------
(* Pooling units on each electrode *)

\* the distinct values of a sequence in order of first occurrence
_unsorted_unique(seq) ==
    LET firsts == {i \in DOMAIN seq : \A j \in 1..(i - 1) : seq[j] # seq[i]}
    IN  [k \in 1..Cardinality(firsts) |->
            seq[CHOOSE i \in firsts : Cardinality({j \in firsts : j <= i}) = k]]

RemoveAt(seq, k) == SubSeq(seq, 1, k - 1) \o SubSeq(seq, k + 1, Len(seq))

RECURSIVE Flatten(_)
Flatten(seqs) == IF seqs = <<>> THEN <<>> ELSE Head(seqs) \o Flatten(Tail(seqs))

_unreshape_data(a, data_shape, axis) ==
    LET data_ndim == Len(data_shape)
        axis_len == a.shape[Len(a.shape)]
        \* data_shape[np.arange(data_ndim) != axis]: a negative axis removes nothing
        kept == IF axis >= 0 /\ axis < data_ndim THEN RemoveAt(data_shape, axis + 1)
                ELSE data_shape
        shape == kept \o <<axis_len>>
    IN  IF data_ndim > 2 /\ Prod(shape) # Prod(a.shape) THEN Raise("ValueError")
        ELSE Only({[ok |-> TRUE,
                    value |-> IF axis # -1 THEN np_moveaxis(r, -1, axis) ELSE r] :
                r \in {IF data_ndim > 2 THEN np_reshape(a, shape, "C") ELSE a}})

\* elec_idxs: index of the first unit of each electrode of elec_set
first_unit_idxs(electrodes, elec_set) ==
    IF \E k \in DOMAIN elec_set : \A u \in DOMAIN electrodes.v : electrodes.v[u] # elec_set[k]
    THEN Raise("IndexError")
    ELSE [ok |-> TRUE,
          value |-> Arg(<<Len(elec_set)>>,
                        [k \in DOMAIN elec_set |->
                            (CHOOSE u \in DOMAIN electrodes.v :
                                /\ electrodes.v[u] = elec_set[k]
                                /\ \A w \in 1..(u - 1) : electrodes.v[w] # elec_set[k]) - 1])]

\* the value returned: data_mua alone, or with elec_idxs when asked
pool_return(mua, electrodes, elec_set, return_idxs) ==
    IF ~return_idxs THEN [ok |-> TRUE, value |-> mua, elec_idxs |-> NoArg]
    ELSE Only({IF ~i.ok THEN i ELSE [ok |-> TRUE, value |-> mua, elec_idxs |-> i.value] :
            i \in {first_unit_idxs(electrodes, elec_set)}})

pool_electrode_units_spike_times(d, electrodes, axis, elec_set0, return_idxs) ==
    IF d.kind = "list" THEN Raise("AttributeError")
    ELSE
    LET elec_set == IF elec_set0.none THEN _unsorted_unique(electrodes.v) ELSE elec_set0.v
        n_elecs == Len(elec_set)
        mat == _reshape_data(d, axis)
        n_series == mat.shape[1]
        n_units == mat.shape[2]
        pooled(i_series, i_elec) ==
            np_sort(Flatten(
                [k \in 1..Cardinality({u \in 1..n_units : electrodes.v[u] = elec_set[i_elec]}) |->
                    mat.elems[(i_series - 1) * n_units
                        + (CHOOSE u \in 1..n_units :
                            /\ electrodes.v[u] = elec_set[i_elec]
                            /\ Cardinality({w \in 1..u : electrodes.v[w] = elec_set[i_elec]}) = k)]]))
    IN  IF Len(mat.shape) # 2 THEN Raise("ValueError")
        ELSE IF n_elecs > 0 /\ n_series > 0 /\ Len(electrodes.v) # n_units
        THEN Raise("IndexError")
        ELSE IF n_series > 0
                /\ \E k \in DOMAIN elec_set :
                      \A u \in DOMAIN electrodes.v : electrodes.v[u] # elec_set[k]
        THEN Raise("ValueError")
        ELSE Only({IF ~out.ok THEN out
                   ELSE pool_return(out.value, electrodes, elec_set, return_idxs) :
                out \in {_unreshape_data(
                    Array("ndarray", "object", <<n_series, n_elecs>>,
                          [n \in 1..(n_series * n_elecs) |->
                              pooled(((n - 1) \div n_elecs) + 1, ((n - 1) % n_elecs) + 1)],
                          FALSE),
                    d.shape, axis)}})

\* pool_electrode_units_spike_bool (any over the units of an electrode) and
\* pool_electrode_units_spike_rate (sum over them): the reduction keeps the unit
\* axis with length 1, and is assigned to data_mua indexed by i_elec, which
\* has no unit axis, under the broadcasting rules of assignment.
pool_along_axis(d, electrodes, axis0, elec_set0, return_idxs, is_bool) ==
    IF d.kind = "list" THEN Raise("AttributeError")
    ELSE
    LET elec_set == IF elec_set0.none THEN _unsorted_unique(electrodes.v) ELSE elec_set0.v
        nd == Len(d.shape)
        axis == norm_axis(axis0, nd)
        n_units == d.shape[axis + 1]
        mua_shape == [d.shape EXCEPT ![axis + 1] = Len(elec_set)]
        lhs_shape == RemoveAt(d.shape, axis + 1)
        rhs_shape == [d.shape EXCEPT ![axis + 1] = 1]
        r == Tail(rhs_shape)
        fits == /\ rhs_shape[1] = 1
                /\ \A i \in DOMAIN r : r[i] = 1 \/ r[i] = lhs_shape[i]
        cell(oidx) ==
            LET elec == elec_set[oidx[axis + 1] + 1]
                lidx == RemoveAt(oidx, axis + 1)
                ridx == <<0>> \o [i \in DOMAIN r |-> IF r[i] = 1 THEN 0 ELSE lidx[i]]
                vals == [u \in 1..n_units |->
                            IF electrodes.v[u] = elec
                            THEN as_number(At(d, [ridx EXCEPT ![axis + 1] = u - 1]), d.dtype)
                            ELSE 0]
            IN  IF is_bool THEN \E u \in 1..n_units : vals[u] # 0
                ELSE SumSeq(vals)
    IN  IF Len(elec_set) > 0 /\ Len(electrodes.v) # n_units
        THEN Raise("IndexError")
        ELSE IF Len(elec_set) > 0 /\ ~fits THEN Raise("ValueError")
        ELSE pool_return(
                Array("ndarray", IF is_bool THEN "bool" ELSE d.dtype, mua_shape,
                      [n \in 1..Prod(mua_shape) |-> cell(CUnravel(mua_shape, n - 1))],
                      FALSE),
                electrodes, elec_set, return_idxs)

pool_electrode_units(data_sua, electrodes, axis, elec_set, return_idxs) ==
    Only({IF ~data_type.ok THEN data_type
          ELSE IF data_type.type = "timestamp"
          THEN pool_electrode_units_spike_times(after_spike_data_type(data_sua),
                                                electrodes, axis, elec_set, return_idxs)
          ELSE pool_along_axis(after_spike_data_type(data_sua), electrodes, axis,
                               elec_set, return_idxs, data_type.type = "bool") :
        data_type \in {_spike_data_type(data_sua)}})

(* Calls of the operations that classify the caller's data *)

ElectrodesArgs == {Arg(<<2>>, <<1, 1>>), Arg(<<2>>, <<1, 2>>), Arg(<<2>>, <<2, 1>>)}

PoolArgs(d) ==
    {[data_sua |-> d, electrodes |-> el, axis |-> ax, elec_set |-> es,
      return_idxs |-> ri] :
        el \in ElectrodesArgs, ax \in {-1, 0},
        es \in {NoArg, Arg(<<1>>, <<1>>), Arg(<<2>>, <<1, 3>>)}, ri \in BOOLEAN}

CallPoolElectrodeUnits ==
    /\ op = "none"
    /\ \E a \in PoolArgs(data) :
        /\ op' = "pool_electrode_units"
        /\ args' = a
        /\ ret' = pool_electrode_units(data, a.electrodes, a.axis, a.elec_set,
                                       a.return_idxs)
        /\ data' = after_spike_data_type(data)

\* timestamps, rates/counts and boolean trains, as arrays and as lists
CallerArrays ==
    DensSingles
    \cup {Array(k, "float", <<2, 2>>, e, FALSE) :
            k \in {"ndarray"}, e \in [1..4 -> {Ms, 3 * Ms}]}
    \cup {Array("ndarray", "int", <<Len(e)>>, e, FALSE) :
            e \in {<<3, 2>>, <<2, 3>>, <<0, One>>, <<One, 0>>}}
    \cup {Array("ndarray", "object", sh, e, FALSE) :
            sh \in {<<2>>, <<1, 2>>}, e \in [1..2 -> {<<>>, <<3 * Ms, Ms>>, <<2 * Ms>>}]}
    \cup {Array("ndarray", "bool", sh, e, FALSE) :
            sh \in {<<4>>, <<2, 2>>}, e \in [1..4 -> BOOLEAN]}

InitFrame ==
    /\ op = "none" /\ args = [none |-> TRUE] /\ ret = [ok |-> TRUE]
    /\ data \in CallerArrays
NextFrame ==
    \/ CallSpikeDataType
    \/ CallBinRate
    \/ CallDensity
    \/ CallCutTrials
    \/ CallPoolElectrodeUnits
SpecFrame == InitFrame /\ [][NextFrame]_vars

\* C19: _spike_data_type, bin_rate, density, cut_trials and
\* pool_electrodes_units leave the caller's array as it was: after the call
\* every element has the value it had, at the same position, for every input
\* including an unsorted 1-D numeric array.
C19_CallerDataUnchanged ==
    op \in {"_spike_data_type", "bin_rate", "density", "cut_trials",
            "pool_electrode_units"}
    => data = args[IF op = "pool_electrode_units" THEN "data_sua" ELSE "data"]

-----------------------------------------------------------------------------
(* Calls that can fail *)

CallCutTrialsSpikeBool ==
    /\ op = "none"
    /\ data.dtype = "bool"
    /\ \E a \in CutTrialsArgs(data) :
        /\ op' = "cut_trials_spike_bool"
        /\ args' = a
        /\ ret' = cut_trials_spike_bool(data, a.trial_lims, a.smp_rate, a.axis,
                                        a.scalar_mode)
        /\ data' = data

\* the caller's arrays of every operation: single trains, rates, boolean
\* trains, and trial-cut collections and boolean data
InitErrors ==
    /\ op = "none" /\ args = [none |-> TRUE] /\ ret = [ok |-> TRUE]
    /\ \/ data \in CallerArrays
       \/ data \in TrialCollections
       \/ data \in TrialMasks
NextErrors ==
    \/ CallBinRate
    \/ CallDensity
    \/ data.dtype # "bool" /\ CallCutTrialsSpikeTimes
    \/ CallCutTrialsSpikeBool
    \/ data.dtype = "object" /\ CallRealignSpikeTimes
    \/ CallRealignSpikeBool
SpecErrors == InitErrors /\ [][NextErrors]_vars

\* C21: when bin_rate, density, cut_trials_spike_times, cut_trials_spike_bool,
\* realign_spike_times or realign_spike_bool fails with an error, the
\* caller's data is as it was before the call: no trial is left shifted or
\* written.
C21_FailureLeavesData ==
    (op \in {"bin_rate", "density", "cut_trials_spike_times", "cut_trials_spike_bool",
             "realign_spike_times", "realign_spike_bool"}
     /\ ~ret.ok)
    => data = args.data

-----------------------------------------------------------------------------
(* Reshaping to a matrix and back *)

\* data, data_shape = _reshape_data(x, axis), then _unreshape_data(data,
\* data_shape, axis): ret.matrix is the first, ret.back the second
CallReshapeUnreshape ==
    /\ op = "none"
    /\ \E axis \in -1..(Len(data.shape) - 1) :
        /\ op' = "_reshape_data"
        /\ args' = [data |-> data, axis |-> axis]
        /\ ret' = Only({[ok |-> TRUE, matrix |-> m,
                         back |-> _unreshape_data(m, data.shape, axis)] :
                    m \in {_reshape_data(data, axis)}})
        /\ data' = data

InitReshape ==
    /\ op = "none" /\ args = [none |-> TRUE] /\ ret = [ok |-> TRUE]
    /\ data \in BoolMasks
NextReshape == CallReshapeUnreshape
SpecReshape == InitReshape /\ [][NextReshape]_vars

\* C22: for every array x of 1 or more axes, C- or Fortran-contiguous, and
\* every axis (non-negative or -1), _reshape_data(x, axis) returns a 2-D array
\* of shape (product of the other axes, length of axis), and _unreshape_data
\* of it with the shape of x and the same axis equals x element for element.
C22_ReshapeRoundTrip ==
    op = "_reshape_data"
    => LET n == args.data.shape[norm_axis(args.axis, Len(args.data.shape)) + 1]
       IN  /\ ret.matrix.shape = <<Prod(args.data.shape) \div n, n>>
           /\ ret.back.ok
           /\ ret.back.value.shape = args.data.shape
           /\ ret.back.value.elems = args.data.elems

-----------------------------------------------------------------------------
(* Properties of times_to_bool *)

\* the bins of the claim: centred on lims[0] + k*width for a width of 1 ms,
\* laid from lims[0] in steps of width otherwise; as many as fit in lims
ClaimedBins ==
    LET w == args.width.v
        span == args.lims.v[2] - args.lims.v[1]
    IN  IF w = Ms
        THEN [k \in 1..((span \div w) + 1) |->
                 <<args.lims.v[1] + (k - 1) * w - HalfMs,
                   args.lims.v[1] + (k - 1) * w + HalfMs>>]
        ELSE [k \in 1..(span \div w) |->
                 <<args.lims.v[1] + (k - 1) * w, args.lims.v[1] + k * w>>]

\* C23: times_to_bool(T, lims, width) with width = 1 ms uses bins centred on
\* lims[0] + k*width, k = 0..(lims[1]-lims[0])/width; with another width the
\* bins are [lims[0]+k*width, lims[0]+(k+1)*width] with centers
\* lims[0]+(k+1/2)*width; element k of the output is True exactly when a
\* spike of T lies in bin k (start <= t < end).
C23_BoolBins ==
    op = "times_to_bool"
    => /\ ret.ok
       /\ ret.timepts = [k \in DOMAIN ClaimedBins |->
                            (ClaimedBins[k][1] + ClaimedBins[k][2]) \div 2]
       /\ ret.spike_bool.elems
            = [k \in DOMAIN ClaimedBins |->
                  \E i \in DOMAIN args.data.elems :
                      /\ ClaimedBins[k][1] <= args.data.elems[i]
                      /\ args.data.elems[i] < ClaimedBins[k][2]]

-----------------------------------------------------------------------------
(* Lengths of the density output *)

\* the time vector before any buffer: t as given, or sampled from lims
UnbufferedT ==
    IF ~args.t.none THEN args.t.v
    ELSE [k \in 1..arange_len(Fine * args.lims.v[1], Fine * args.lims.v[2] + Eps,
                              Fine * (One \div args.smp_rate)) |->
             args.lims.v[1] + (k - 1) * (One \div args.smp_rate)]

RatesTimeLen ==
    ret.rates.shape[IF args.data.dtype = "bool"
                    THEN norm_axis(args.axis, Len(args.data.shape)) + 1
                    ELSE Len(ret.rates.shape)]

\* C24: for every buffer >= 0, also a non-zero one that rounds to 0 samples,
\* and every downsmp >= 1, density returns rates and a time vector of the
\* same length along the time axis, ceil(n/downsmp) for n the length of the
\* un-buffered time vector, and the time vector is every downsmp-th entry of
\* the un-buffered one from its first entry.
C24_OutputLengths ==
    (IsDensityCall /\ ret.ok)
    => /\ RatesTimeLen = Len(ret.t)
       /\ Len(ret.t) = CeilDiv(Len(UnbufferedT), args.downsmp)
       /\ ret.t = every_kth(UnbufferedT, args.downsmp)

-----------------------------------------------------------------------------
(* Centering of the density convolution *)

\* the buffer of the call in samples
DensBufferSmps ==
    LET buffer == IF ~args.buffer.none THEN args.buffer.v
                  ELSE IF args.kernel = "hanning" THEN args.width
                  ELSE 3 * args.width
    IN  py_round(buffer * args.smp_rate, One)

\* the samples (from 1) of the un-buffered time vector at which train n has
\* a spike
SpikeSamples(n) ==
    IF args.data.dtype = "bool"
    THEN LET bidx == CUnravel(BatchShapeOf(args.data, DensAxis), n - 1)
         IN  {j \in 1..args.data.shape[DensAxis + 1] :
                 At(args.data, InsertAt(bidx, DensAxis, j - 1))}
    ELSE {j \in 1..Len(UnbufferedT) :
             \E k \in DOMAIN args.data.elems[n] :
                 /\ 2 * UnbufferedT[j] - Ms <= 2 * args.data.elems[n][k]
                 /\ 2 * args.data.elems[n][k] < 2 * UnbufferedT[j] + Ms}

\* train n has a single spike, inside the analysis range, that the mirrored
\* buffer does not repeat
SingleSpike(n) ==
    /\ Cardinality(SpikeSamples(n)) = 1
    /\ args.data.dtype = "object" => Len(args.data.elems[n]) = 1
    /\ args.data.dtype = "bool"
       => \A i \in SpikeSamples(n) :
             /\ i = 1 \/ i > DensBufferSmps + 1
             /\ i = Len(UnbufferedT) \/ i < Len(UnbufferedT) - DensBufferSmps

\* C25: the convolution is centered with no phase shift.  For a binary train
\* with a single spike at sample i and a symmetric kernel of odd or even
\* length, the returned rates have the length of the input train and
\* rate[i-k] = rate[i+k] for every k with both samples in the output.
\* (Stated without downsampling and for a buffer of 0 or of at least one
\* sample, on boolean arrays and timestamp collections.)
C25_Centered ==
    (IsDensityCall /\ DensityCallAllowed /\ args.downsmp = 1
     /\ args.data.dtype \in {"bool", "object"}
     /\ (args.buffer.none \/ args.buffer.v = 0 \/ DensBufferSmps >= 1))
    => /\ ret.ok
       /\ Len(ret.t) = Len(UnbufferedT)
       /\ RatesTimeLen = Len(UnbufferedT)
       /\ \A n \in 1..DensTrainCount :
            SingleSpike(n)
            => \A i \in SpikeSamples(n) :
                  \A k \in 1..Len(ret.t) :
                     (i - k >= 1 /\ i + k <= Len(ret.t))
                     => RateOf(n, i - k) = RateOf(n, i + k)

-----------------------------------------------------------------------------
(* The buffer density adds before the convolution *)

\* a successful call on boolean data with a buffer of 1 to n-1 samples
IsBufferedBoolCall ==
    /\ IsDensityCall /\ ret.ok
    /\ args.data.dtype = "bool"
    /\ DensBufferSmps >= 1
    /\ DensBufferSmps <= args.data.shape[DensAxis + 1] - 1

\* sample j (from 0) of train r (from 1) of the data as passed
DataSample(r, j) ==
    At(args.data,
       InsertAt(CUnravel(BatchShapeOf(args.data, DensAxis), r - 1), DensAxis, j))

\* sample j (from 0) of train r of the padded data, True as 1
PaddedSample(r, j) ==
    ret.padded.elems[(r - 1) * ret.padded.shape[Len(ret.padded.shape)] + j + 1] = 1

\* C26: for boolean input of n samples and a buffer of b samples,
\* 1 <= b <= n-1, density pads every train to n + 2b samples p with
\* p[b+j] = d[j], p[b-k] = d[k] and p[b+n-1+k] = d[n-1-k] for 1 <= k <= b
\* (the edges mirrored about the first and last sample, which are not
\* repeated), and extends the time vector by exactly b samples spaced dt on
\* each side, so that padded data and padded time vector are equally long.
C26_ReflectPadding ==
    IsBufferedBoolCall
    => LET n == args.data.shape[DensAxis + 1]
           b == DensBufferSmps
           t == args.t.v
           dt == t[2] - t[1]
       IN  /\ ret.padded.shape[Len(ret.padded.shape)] = n + 2 * b
           /\ Len(ret.padded.elems) = DensTrainCount * (n + 2 * b)
           /\ \A r \in 1..DensTrainCount :
                /\ \A j \in 0..(n - 1) : PaddedSample(r, b + j) = DataSample(r, j)
                /\ \A k \in 1..b :
                     /\ PaddedSample(r, b - k) = DataSample(r, k)
                     /\ PaddedSample(r, b + n - 1 + k) = DataSample(r, n - 1 - k)
           /\ Len(ret.t_padded) = n + 2 * b
           /\ \A k \in 1..(n + 2 * b) : ret.t_padded[k] = t[1] + (k - 1 - b) * dt

\* a buffered call on a train whose edge samples differ from their
\* neighbours, so that mirroring and repeating the edge differ
C26_Witness ==
    /\ IsBufferedBoolCall
    /\ DensBufferSmps >= 2
    /\ \E r \in 1..DensTrainCount :
          /\ DataSample(r, 0) # DataSample(r, 1)
          /\ DataSample(r, args.data.shape[DensAxis + 1] - 1)
                # DataSample(r, args.data.shape[DensAxis + 1] - 2)
          /\ PaddedSample(r, 0) = DataSample(r, DensBufferSmps)

-----------------------------------------------------------------------------
(* Calls of _check_window_lengths *)

\* windows in samples: starts 0 and 3, lengths (end - start) 2, 3, 4 and 6
SampleWindows == {<<s, s + l>> : s \in {0, 3}, l \in {2, 3, 4, 6}}

\* one to three windows, as an (n_wins, 2) integer ndarray
WindowArrays ==
    {Arg(<<Len(w), 2>>, w) : w \in SeqsUpTo(SampleWindows, 3) \ {<<>>}}

TolArgs == {0, 1, 2}

\* windows[:,1] = ... writes into the caller's array (np.asarray does not
\* copy an ndarray)
CallCheckWindowLengths ==
    /\ op = "none"
    /\ \E tol \in TolArgs, sm \in BOOLEAN :
        /\ op' = "_check_window_lengths"
        /\ args' = [windows |-> data, tol |-> tol, scalar_mode |-> sm]
        /\ ret' = _check_window_lengths(data.v, tol, sm)
        /\ data' = IF ret'.ok THEN [data EXCEPT !.v = ret'.value] ELSE data

InitWinLen ==
    /\ op = "none" /\ args = [none |-> TRUE] /\ ret = [ok |-> TRUE]
    /\ data \in WindowArrays
NextWinLen == CallCheckWindowLengths
SpecWinLen == InitWinLen /\ [][NextWinLen]_vars

\* the lengths of the windows passed, and the most frequent of them
PassedLengths == [k \in DOMAIN args.windows.v |->
                    args.windows.v[k][2] - args.windows.v[k][1]]
ModalLength == stats_mode(PassedLengths)
LengthsEqual == \A k \in DOMAIN PassedLengths : PassedLengths[k] = PassedLengths[1]
LengthsWithinTol ==
    \A k \in DOMAIN PassedLengths :
        /\ PassedLengths[k] - ModalLength <= args.tol
        /\ ModalLength - PassedLengths[k] <= args.tol

\* C27: _check_window_lengths(windows, tol), for one window or more, returns
\* the windows unchanged when all lengths are equal; when the lengths differ
\* but each is within tol of the modal length, returns the windows with the
\* same starts and every end moved so that all lengths equal the modal
\* length; and fails with a tolerance error when a length differs from the
\* modal length by more than tol.
C27_WindowLengths ==
    op = "_check_window_lengths"
    => IF LengthsEqual
       THEN ret.ok /\ ret.value = args.windows.v
       ELSE IF LengthsWithinTol
       THEN /\ ret.ok
            /\ Len(ret.value) = Len(args.windows.v)
            /\ \A k \in DOMAIN ret.value :
                  /\ ret.value[k][1] = args.windows.v[k][1]
                  /\ ret.value[k][2] - ret.value[k][1] = ModalLength
       ELSE ~ret.ok /\ ret.err = "AssertionError: window lengths"

-----------------------------------------------------------------------------
(* Sample ranges sliced by cut_trials_spike_bool *)

InitCutBool ==
    /\ op = "none" /\ args = [none |-> TRUE] /\ ret = [ok |-> TRUE]
    /\ data \in CutMasks
NextCutBool == CallCutTrialsSpikeBool
SpecCutBool == InitCutBool /\ [][NextCutBool]_vars

\* the trial windows as sample indices, before the length check
TrialIdxs ==
    [k \in DOMAIN args.trial_lims.v |->
        <<py_round(args.smp_rate.v * args.trial_lims.v[k][1], One),
          py_round(args.smp_rate.v * args.trial_lims.v[k][2], One)>>]

\* the call got as far as the length check and passed it
WindowsChecked ==
    /\ op = "cut_trials_spike_bool"
    /\ ~args.smp_rate.none
    /\ Len(args.trial_lims.shape) = 2 /\ args.trial_lims.shape[2] = 2
    /\ \A k \in DOMAIN TrialIdxs :
          /\ 0 <= TrialIdxs[k][1] /\ TrialIdxs[k][1] < CutAxisLen
          /\ 0 <= TrialIdxs[k][2] /\ TrialIdxs[k][2] < CutAxisLen
    /\ _check_window_lengths(TrialIdxs, 1, args.scalar_mode).ok

\* the windows the trial loop slices
SlicedWindows == _check_window_lengths(TrialIdxs, 1, args.scalar_mode).value

\* C28: in cut_trials_spike_bool every sample range sliced out of the data
\* lies within the data: after the windows are converted to sample indices,
\* bounds-checked and trimmed or expanded to the modal length, every window
\* [start, end] still has 0 <= start and end < n_samples, so that each
\* trial of the result holds exactly the n_smp_per_trial samples
\* start .. end of the data.
C28_SlicesInBounds ==
    WindowsChecked
    => /\ \A k \in DOMAIN SlicedWindows :
            0 <= SlicedWindows[k][1] /\ SlicedWindows[k][2] < CutAxisLen
       /\ ret.ok
       /\ LET ax == norm_axis(args.axis, Len(args.data.shape))
              n_smp == SlicedWindows[1][2] - SlicedWindows[1][1] + 1
          IN  /\ ret.value.shape = [args.data.shape EXCEPT ![ax + 1] = n_smp]
                                       \o <<Len(SlicedWindows)>>
              /\ \A idx \in Indices(ret.value.shape) :
                    LET trial == idx[Len(idx)] + 1
                        src == SubSeq(idx, 1, Len(idx) - 1)
                    IN  /\ src[ax + 1] + SlicedWindows[trial][1] < CutAxisLen
                        /\ At(ret.value, idx)
                             = At(args.data, [src EXCEPT ![ax + 1] =
                                                 @ + SlicedWindows[trial][1]])

-----------------------------------------------------------------------------
(* Calls of pool_electrode_units_spike_times *)

PoolTrains == {<<>>, <<Ms, 3 * Ms>>, <<2 * Ms>>}

\* collections of one, two and three axes, the unit axis of length 2
PoolCollections ==
    {Array("ndarray", "object", <<2>>, e, FALSE) : e \in [1..2 -> PoolTrains]}
    \cup {Array("ndarray", "object", <<2, 2>>, e, f) :
            e \in [1..4 -> PoolTrains], f \in BOOLEAN}
    \cup {Array("ndarray", "object", <<2, 1, 2>>, e, FALSE) : e \in [1..4 -> PoolTrains]}

PoolTimesArgs(d) ==
    {[data_sua |-> d, electrodes |-> el, axis |-> ax, elec_set |-> es,
      return_idxs |-> ri] :
        el \in ElectrodesArgs, ax \in -1..(Len(d.shape) - 1),
        es \in {NoArg, Arg(<<1>>, <<1>>), Arg(<<2>>, <<2, 1>>)}, ri \in BOOLEAN}

CallPoolSpikeTimes ==
    /\ op = "none"
    /\ \E a \in PoolTimesArgs(data) :
        /\ op' = "pool_electrode_units_spike_times"
        /\ args' = a
        /\ ret' = pool_electrode_units_spike_times(data, a.electrodes, a.axis,
                                                   a.elec_set, a.return_idxs)
        /\ data' = data

InitPool ==
    /\ op = "none" /\ args = [none |-> TRUE] /\ ret = [ok |-> TRUE]
    /\ data \in PoolCollections
NextPool == CallPoolSpikeTimes
SpecPool == InitPool /\ [][NextPool]_vars

PoolAxis == norm_axis(args.axis, Len(args.data_sua.shape))

\* elec_set, or its default: the distinct electrodes in order of first
\* occurrence
PoolElecSet ==
    IF ~args.elec_set.none THEN args.elec_set.v
    ELSE LET el == args.electrodes.v
             firsts == {u \in DOMAIN el : \A w \in 1..(u - 1) : el[w] # el[u]}
         IN  [k \in 1..Cardinality(firsts) |->
                el[CHOOSE u \in firsts : Cardinality({w \in firsts : w <= u}) = k]]

\* one electrode number per unit of the unit axis, and every electrode asked
\* for has a unit
IsPoolTimesCall ==
    /\ op = "pool_electrode_units_spike_times"
    /\ Len(args.electrodes.v) = args.data_sua.shape[PoolAxis + 1]
    /\ \A k \in DOMAIN PoolElecSet :
          \E u \in DOMAIN args.electrodes.v : args.electrodes.v[u] = PoolElecSet[k]

\* how often v occurs in a train
TimesIn(train, v) == Cardinality({i \in DOMAIN train : train[i] = v})

\* C29: pool_electrode_units_spike_times, for a collection of any number of
\* axes and any unit axis (the default -1 included), returns a collection
\* shaped like the input with the unit axis of length len(elec_set),
\* elec_set defaulting to the distinct electrodes in order of first
\* occurrence; the train at electrode e and any batch index is the ascending
\* concatenation (as a multiset) of the trains of exactly the units on e at
\* that batch index; and with return_idxs the i-th index is the first
\* position of elec_set[i] in electrodes.
C29_PooledTimes ==
    IsPoolTimesCall
    => /\ ret.ok
       /\ ret.value.shape = [args.data_sua.shape EXCEPT ![PoolAxis + 1] = Len(PoolElecSet)]
       /\ Len(ret.value.elems) = Prod(ret.value.shape)
       /\ \A idx \in Indices(ret.value.shape) :
            LET e == PoolElecSet[idx[PoolAxis + 1] + 1]
                units == {u \in DOMAIN args.electrodes.v : args.electrodes.v[u] = e}
                pooled == At(ret.value, idx)
            IN  /\ IsAscending(pooled)
                /\ \A v \in 0..(3 * Ms) :
                      TimesIn(pooled, v)
                        = SumSeq([u \in DOMAIN args.electrodes.v |->
                            IF u \in units
                            THEN TimesIn(At(args.data_sua,
                                            [idx EXCEPT ![PoolAxis + 1] = u - 1]), v)
                            ELSE 0])
                /\ Len(pooled)
                      = SumSeq([u \in DOMAIN args.electrodes.v |->
                            IF u \in units
                            THEN Len(At(args.data_sua, [idx EXCEPT ![PoolAxis + 1] = u - 1]))
                            ELSE 0])
       /\ args.return_idxs
          => /\ ~ret.elec_idxs.none
             /\ Len(ret.elec_idxs.v) = Len(PoolElecSet)
             /\ \A i \in DOMAIN PoolElecSet :
                   /\ args.electrodes.v[ret.elec_idxs.v[i] + 1] = PoolElecSet[i]
                   /\ \A w \in 1..ret.elec_idxs.v[i] :
                         args.electrodes.v[w] # PoolElecSet[i]

-----------------------------------------------------------------------------
(* Calls of bin_rate on trains with more spikes than a uint16 counts *)

\* a train repeated 2^n times
RECURSIVE Doubled(_, _)
Doubled(train, n) == IF n = 0 THEN train ELSE Doubled(train \o train, n - 1)

Uint16Bits == 16     \* 2^16 = Uint16

\* 2^16 + 1 spikes at 0.5 s
BurstTrain == Doubled(<<Half>>, Uint16Bits) \o <<Half>>

BurstTrains == {<<>>, <<Half>>, <<0, Half, Half>>}

\* collections of one or two short trains, and the burst alone
BurstCollections ==
    {Array("ndarray", "object", <<Len(e)>>, e, FALSE) :
        e \in SeqsUpTo(BurstTrains, 2) \ {<<>>}}
    \cup {Array("ndarray", "object", <<1>>, <<BurstTrain>>, FALSE)}

InitBurst ==
    /\ op = "none" /\ args = [none |-> TRUE] /\ ret = [ok |-> TRUE]
    /\ data \in BurstCollections
NextBurst == CallBinRate
SpecBurst == InitBurst /\ [][NextBurst]_vars

\* a call of bin_rate on a collection that returned, no spike of which lies
\* on the end of the last bin
IsCountedCall ==
    /\ op = "bin_rate" /\ ret.ok
    /\ args.data.dtype = "object"
    /\ \A i \in DOMAIN args.data.elems :
          \A k \in DOMAIN args.data.elems[i] :
              args.data.elems[i][k] # ret.bins[Len(ret.bins)][2]

\* C30: for every train and every bin, bin_rate with count=True returns the
\* exact number of the train's spikes in the bin, and with count=False that
\* number divided by the bin's own width, end - start; for any number of
\* spikes per bin, more than 65535 included (the unsigned 16-bit count does
\* not wrap around), on the histogram path and on the custom-bin path.
C30_ExactCounts ==
    IsCountedCall
    => /\ Len(ret.rates.elems) = Len(args.data.elems) * Len(ret.bins)
       /\ \A i \in DOMAIN args.data.elems :
            \A j \in DOMAIN ret.bins :
               LET cell == ret.rates.elems[(i - 1) * Len(ret.bins) + j]
                   exact == HalfOpenCount(args.data.elems[i], ret.bins[j])
               IN  IF args.count THEN cell = exact
                   ELSE cell = <<exact, ret.bins[j][2] - ret.bins[j][1]>>

====
